---- MODULE Spec2Model ----
(***************************************************************************)
(* A model of the 3D wireframe renderer: the geometric entities of         *)
(* shape.js (src/unnamed/part_000), the Camera of camera.js (src/main.js,  *)
(* lines 435-723) and the algebra of math.js they import.                  *)
(*                                                                         *)
(* Objects live on a heap (Vertex, Edge, Face, Light and Point objects     *)
(* keyed by an object id), so that aliasing and in-place mutation are what *)
(* the code makes them.  A JavaScript number is an exact rational <<n, d>> *)
(* (d > 0, lowest terms) or one of the three non-finite values             *)
(* <<1, 0>> = Infinity, <<-1, 0>> = -Infinity, <<0, 0>> = NaN.             *)
(***************************************************************************)
EXTENDS Integers, Sequences, FiniteSets, TLC

(***************************************************************************)
(* JavaScript numbers                                                      *)
(***************************************************************************)
Abs(n) == IF n < 0 THEN -n ELSE n

Sgn(n) == IF n > 0 THEN 1 ELSE IF n < 0 THEN -1 ELSE 0

RECURSIVE Gcd(_, _)
Gcd(a, b) == IF b = 0 THEN a ELSE Gcd(b, a % b)

Norm(n, d) ==
    IF d = 0 THEN <<Sgn(n), 0>>
    ELSE LET g == Gcd(Abs(n), Abs(d))
         IN  <<(Sgn(d) * n) \div g, Abs(d) \div g>>

Num(n) == <<n, 1>>

NaN == <<0, 0>>

PosInf == <<1, 0>>

NegInf == <<-1, 0>>

IsNaN(a) == a = NaN

IsFinite(a) == a[2] # 0

Neg(a) == <<-a[1], a[2]>>

Add(a, b) ==
    IF a[2] = 0 /\ b[2] = 0 THEN (IF a = b THEN a ELSE NaN)
    ELSE IF a[2] = 0 THEN a
    ELSE IF b[2] = 0 THEN b
    ELSE LET g == Gcd(a[2], b[2])
         IN  Norm(a[1] * (b[2] \div g) + b[1] * (a[2] \div g), (a[2] \div g) * b[2])

Sub(a, b) == Add(a, Neg(b))

Mul(a, b) ==
    IF a[2] = 0 \/ b[2] = 0 THEN <<Sgn(a[1]) * Sgn(b[1]), 0>>
    ELSE LET g1 == Gcd(Abs(a[1]), b[2])
             g2 == Gcd(Abs(b[1]), a[2])
         IN  IF a[1] = 0 \/ b[1] = 0 THEN Num(0)
             ELSE <<(a[1] \div g1) * (b[1] \div g2), (a[2] \div g2) * (b[2] \div g1)>>

Inv(a) ==
    IF a[1] = 0 THEN (IF a[2] = 0 THEN NaN ELSE PosInf)
    ELSE IF a[2] = 0 THEN Num(0)
    ELSE <<Sgn(a[1]) * a[2], Abs(a[1])>>

Div(a, b) == Mul(a, Inv(b))

\* a <= b, a < b, a >= b, a > b and a === b as JavaScript compares numbers:
\* every comparison with NaN is false.
Leq(a, b) ==
    /\ ~IsNaN(a)
    /\ ~IsNaN(b)
    /\ \/ a = NegInf
       \/ b = PosInf
       \/ IsFinite(a) /\ IsFinite(b) /\ a[1] * b[2] <= b[1] * a[2]

Lt(a, b) == Leq(a, b) /\ a # b

Geq(a, b) == Leq(b, a)

Gt(a, b) == Lt(b, a)

StrictEq(a, b) == ~IsNaN(a) /\ ~IsNaN(b) /\ a = b

MathMin(a, b) == IF IsNaN(a) \/ IsNaN(b) THEN NaN ELSE IF Leq(a, b) THEN a ELSE b

MathMax(a, b) == IF IsNaN(a) \/ IsNaN(b) THEN NaN ELSE IF Leq(a, b) THEN b ELSE a

MathSign(a) == IF IsNaN(a) THEN NaN ELSE Num(Sgn(a[1]))

\* The integer square root, by bisection on lo <= r < hi.
RECURSIVE ISqrtIn(_, _, _)
ISqrtIn(n, lo, hi) ==
    IF hi - lo <= 1 THEN lo
    ELSE LET mid == (lo + hi) \div 2
         IN  IF mid <= n \div mid THEN ISqrtIn(n, mid, hi) ELSE ISqrtIn(n, lo, mid)

ISqrt(n) == IF n <= 0 THEN 0 ELSE ISqrtIn(n, 1, n + 1)

IsSquare(n) == n >= 0 /\ ISqrt(n) * ISqrt(n) = n

\* Math.sqrt on the numbers whose root is rational (the model's scenes keep
\* every edge length rational).
Sqrt(a) ==
    IF a[2] = 0 THEN (IF a = PosInf THEN PosInf ELSE NaN)
    ELSE IF a[1] < 0 THEN NaN
    ELSE <<ISqrt(a[1]), ISqrt(a[2])>>

HasRationalRoot(a) == IsFinite(a) /\ IsSquare(a[1]) /\ IsSquare(a[2])

(***************************************************************************)
(* State                                                                   *)
(***************************************************************************)
VARIABLES
    heap,             \* the objects: [v, e, f, l, p], each a function from object ids
    vertexes,         \* the caller's canonical vertex array (vertex ids)
    edges,            \* the caller's canonical edge array (edge ids)
    faces,            \* the caller's canonical face array (face ids)
    lights,           \* the caller's canonical light array (light ids)
    cameras,          \* the constructed cameras, a sequence of camera records
    last,             \* the last shape operation or camera frame: what it was applied to and what it did
    moves,            \* how many Vertex.move calls the caller has made
    frames,           \* how many frames mainLoop has run
    boundaryIsFront,  \* whether Plane.isPointInFrontOf counts a point on the plane as in front
    parallelResult    \* what the line/plane solver yields for a parallel line

vars == <<heap, vertexes, edges, faces, lights, cameras, last, moves, frames,
         boundaryIsFront, parallelResult>>

(***************************************************************************)
(* math.js: Point, Vector, Line, Plane (imported by both source files;     *)
(* modelled from the specification, sections 3 and 4.1)                    *)
(***************************************************************************)
Null == <<>>

\* The one element of a singleton set: names a value once it is computed
The(S) == CHOOSE r \in S : TRUE

Some(p) == <<p>>

Point(px, py, pz) == [x |-> px, y |-> py, z |-> pz]

Vector(vx, vy, vz) == [x |-> vx, y |-> vy, z |-> vz]

\* Point.move: the point translated by the vector
PointMove(p, vector) ==
    Point(Add(p.x, vector.x), Add(p.y, vector.y), Add(p.z, vector.z))

getVectorFrom2Points(p1, p2) ==
    Vector(Sub(p2.x, p1.x), Sub(p2.y, p1.y), Sub(p2.z, p1.z))

getInnerProduct(v1, v2) ==
    Add(Add(Mul(v1.x, v2.x), Mul(v1.y, v2.y)), Mul(v1.z, v2.z))

getCrossProduct(v1, v2) ==
    Vector(Sub(Mul(v1.y, v2.z), Mul(v1.z, v2.y)),
           Sub(Mul(v1.z, v2.x), Mul(v1.x, v2.z)),
           Sub(Mul(v1.x, v2.y), Mul(v1.y, v2.x)))

\* Vector.multiplication
multiplication(v, k) == Vector(Mul(v.x, k), Mul(v.y, k), Mul(v.z, k))

VectorLength(v) == Sqrt(getInnerProduct(v, v))

\* Vector.changeLength: the vector scaled to the signed length len
changeLength(v, len) == multiplication(v, Div(len, VectorLength(v)))

Line(point, vector) == [point |-> point, vector |-> vector]

Plane(a, b, c, d) == [a |-> a, b |-> b, c |-> c, d |-> d]

getPlaneFromVectorAndPoint(n, p) ==
    Plane(n.x, n.y, n.z, Neg(getInnerProduct(n, p)))

\* a*x + b*y + c*z + d
PlaneValue(plane, p) ==
    Add(getInnerProduct(Vector(plane.a, plane.b, plane.c), p), plane.d)

\* Plane.isPointInFrontOf: the side the normal points to.  The specification
\* leaves the convention for a point on the plane itself open (section 8).
isPointInFrontOf(plane, p) ==
    IF boundaryIsFront THEN Geq(PlaneValue(plane, p), Num(0))
    ELSE Gt(PlaneValue(plane, p), Num(0))

\* What the solver yields for a line parallel to the plane: the null the
\* specification prescribes (sections 4.1, 7), or the quotient by a zero
\* of either sign that the unguarded division makes.
ParallelResults == {"null", "+0", "-0"}

\* The point line.point + t * line.vector for the solver's t = -num / den.
SolveLineAndPlane(line, num, den) ==
    IF den = Num(0) /\ parallelResult = "null" THEN Null
    ELSE Some(PointMove(line.point,
                        multiplication(line.vector,
                                       IF den # Num(0) THEN Div(Neg(num), den)
                                       ELSE IF parallelResult = "+0" THEN Mul(Neg(num), PosInf)
                                       ELSE Mul(Neg(num), NegInf))))

getIntersectionFromLineAndPlane(line, plane) ==
    SolveLineAndPlane(line, PlaneValue(plane, line.point),
                      getInnerProduct(Vector(plane.a, plane.b, plane.c), line.vector))

(***************************************************************************)
(* shape.js (src/unnamed/part_000): Vertex, Edge, HalfLine, Face, Light    *)
(*                                                                         *)
(* An operation that allocates or mutates takes the heap h and returns     *)
(* [h |-> the heap after it, r |-> what it returns, err |-> whether it     *)
(* threw a TypeError].  heap.v, heap.e, heap.f, heap.l and heap.p map      *)
(* object ids to Vertex, Edge, Face, Light and free-standing Point         *)
(* objects.  A Vertex owns its Point object (created by its constructor    *)
(* and never reassigned), so the Point is a field of the Vertex record     *)
(* and a Line that holds that Point object holds the Vertex's id.          *)
(***************************************************************************)
Undefined == "undefined"

NewId(dom) ==
    CHOOSE n \in 1..(Cardinality(dom) + 1) : n \notin dom /\ \A m \in 1..(n - 1) : m \in dom

Ok(h, r) == [h |-> h, r |-> r, err |-> FALSE]

Threw(h) == [h |-> h, r |-> 0, err |-> TRUE]

\* new Vertex(x, y, z, i)
AddVertex(h, o) == Ok([h EXCEPT !.v = NewId(DOMAIN h.v) :> o @@ @], NewId(DOMAIN h.v))

VertexObject(vx, vy, vz, i) ==
    [x |-> vx, y |-> vy, z |-> vz, i |-> i, point |-> Point(vx, vy, vz)]

NewVertex(h, vx, vy, vz, i) == AddVertex(h, VertexObject(vx, vy, vz, i))

VertexGetClone(h, vid) ==
    NewVertex(h, h.v[vid].x, h.v[vid].y, h.v[vid].z, h.v[vid].i)

\* Vertex.move: moves the vertex and its point in place and returns a clone
VertexMoved(o, vector) ==
    [o EXCEPT !.x = Add(o.x, vector.x),
              !.y = Add(o.y, vector.y),
              !.z = Add(o.z, vector.z),
              !.point = PointMove(o.point, vector)]

VertexMove(h, vid, vector) ==
    VertexGetClone([h EXCEPT !.v[vid] = VertexMoved(h.v[vid], vector)], vid)

\* new Edge(vertex1, vertex2)
EdgeObject(v1, v2, vector) ==
    [vertex1 |-> v1, vertex2 |-> v2, vector |-> vector,
     line |-> [point |-> v1, vector |-> vector]]

AddEdge(h, o) == Ok([h EXCEPT !.e = NewId(DOMAIN h.e) :> o @@ @], NewId(DOMAIN h.e))

NewEdge(h, v1, v2) ==
    AddEdge(h, EdgeObject(v1, v2, getVectorFrom2Points(h.v[v1].point, h.v[v2].point)))

\* A getClone that returns the edge it is called on
EdgeGetCloneSame(h, eid) == Ok(h, eid)

\* new Edge(this.vertex1.getClone(), this.vertex2.getClone())
EdgeGetClone(h, eid) ==
    The({The({NewEdge(c2.h, c1.r, c2.r) :
                c2 \in {VertexGetClone(c1.h, h.e[eid].vertex2)}}) :
         c1 \in {VertexGetClone(h, h.e[eid].vertex1)}})

\* The Line object an edge holds, with the Point object it refers to.
EdgeLine(h, eid) == Line(h.v[h.e[eid].line.point].point, h.e[eid].line.vector)

EdgeIsPointInRange(h, eid, point) ==
    LET v1 == h.v[h.e[eid].vertex1]
        v2 == h.v[h.e[eid].vertex2]
    IN  /\ Leq(MathMin(v1.x, v2.x), point.x)
        /\ Geq(MathMax(v1.x, v2.x), point.x)
        /\ Leq(MathMin(v1.y, v2.y), point.y)
        /\ Geq(MathMax(v1.y, v2.y), point.y)
        /\ Leq(MathMin(v1.z, v2.z), point.z)
        /\ Geq(MathMax(v1.z, v2.z), point.z)

\* Edge.getIntersectionWithPlane: the intersection, or Null.  isPointInRange
\* reads point.x with no test for null, which throws when the solver gave null.
EdgeRangeCheck(h, eid, intersection) ==
    IF intersection = Null THEN Threw(h)
    ELSE IF EdgeIsPointInRange(h, eid, intersection[1]) THEN Ok(h, intersection)
    ELSE Ok(h, Null)

EdgeGetIntersectionWithPlane(h, eid, plane) ==
    EdgeRangeCheck(h, eid, getIntersectionFromLineAndPlane(EdgeLine(h, eid), plane))

\* The nudge of setVertexInFrontOfCamera, 0.0001
FixLength == <<1, 10000>>

\* return new Edge(this.vertex1, this.vertex2)
ReturnNewEdge(h, eid) == NewEdge(h, h.e[eid].vertex1, h.e[eid].vertex2)

\* intersection.move(fixVector): the intersection moved along the edge's vector
MovedIntersection(h, eid, ix, len) == PointMove(ix.r[1], changeLength(h.e[eid].vector, len))

\* this.vertex1 = new Vertex(intersection.x, intersection.y, intersection.z, this.vertex1.i)
AssignVertex1(nv, eid) == [nv.h EXCEPT !.e[eid].vertex1 = nv.r]

\* this.vertex2 = new Vertex(intersection.x, intersection.y, intersection.z, this.vertex2.i)
AssignVertex2(nv, eid) == [nv.h EXCEPT !.e[eid].vertex2 = nv.r]

\* A replacement of vertex1 that takes the identity of the other endpoint
ReplaceVertex1OtherId(h, eid, moved) ==
    AssignVertex1(NewVertex(h, moved.x, moved.y, moved.z, h.v[h.e[eid].vertex2].i), eid)

ReplaceVertex1(h, eid, moved) ==
    AssignVertex1(NewVertex(h, moved.x, moved.y, moved.z, h.v[h.e[eid].vertex1].i), eid)

ReplaceVertex2(h, eid, moved) ==
    AssignVertex2(NewVertex(h, moved.x, moved.y, moved.z, h.v[h.e[eid].vertex2].i), eid)

\* setVertexInFrontOfCamera once the intersection ix is known
ClipWithIntersection(h, eid, plane, ix) ==
    IF ix.err THEN Threw(h)
    ELSE IF ix.r = Null THEN ReturnNewEdge(h, eid)
    ELSE IF isPointInFrontOf(plane, h.v[h.e[eid].vertex1].point)
    THEN The({ReturnNewEdge(replaced, eid) :
                replaced \in {ReplaceVertex2(h, eid, moved) :
                                 moved \in {MovedIntersection(h, eid, ix, Neg(FixLength))}}})
    ELSE The({ReturnNewEdge(replaced, eid) :
                replaced \in {ReplaceVertex1(h, eid, moved) :
                                 moved \in {MovedIntersection(h, eid, ix, FixLength)}}})

setVertexInFrontOfCamera(h, eid, plane) ==
    The({ClipWithIntersection(h, eid, plane, ix) :
           ix \in {EdgeGetIntersectionWithPlane(h, eid, plane)}})

\* new HalfLine(point, vector): a value, never mutated
HalfLine(point, vector) ==
    [point |-> point, vector |-> vector, line |-> Line(point, vector)]

HalfLineIsPointInRange(hl, point) ==
    /\ StrictEq(MathSign(hl.vector.x), MathSign(Sub(point.x, hl.point.x)))
    /\ StrictEq(MathSign(hl.vector.y), MathSign(Sub(point.y, hl.point.y)))
    /\ StrictEq(MathSign(hl.vector.z), MathSign(Sub(point.z, hl.point.z)))

\* HalfLine.getIntersectionWithPlane: [r |-> the intersection or Null, err |-> threw]
HalfLineRangeCheck(hl, intersection) ==
    IF intersection = Null THEN [r |-> Null, err |-> TRUE]
    ELSE IF HalfLineIsPointInRange(hl, intersection[1])
    THEN [r |-> intersection, err |-> FALSE]
    ELSE [r |-> Null, err |-> FALSE]

HalfLineGetIntersectionWithPlane(hl, plane) ==
    HalfLineRangeCheck(hl, getIntersectionFromLineAndPlane(hl.line, plane))

\* new Face(vertex1, vertex2, vertex3, color, roughness)
FaceObject(h, v1, v2, v3, color, roughness, vector1, vector2, normalVector) ==
    [vertex1 |-> v1, vertex2 |-> v2, vertex3 |-> v3,
     color |-> color, roughness |-> roughness,
     vector1 |-> vector1, vector2 |-> vector2, normalVector |-> normalVector,
     plane |-> getPlaneFromVectorAndPoint(normalVector, h.v[v1].point)]

FaceFromVectors(h, v1, v2, v3, color, roughness, vector1, vector2) ==
    FaceObject(h, v1, v2, v3, color, roughness, vector1, vector2,
               getCrossProduct(vector1, vector2))

AddFace(h, o) == Ok([h EXCEPT !.f = NewId(DOMAIN h.f) :> o @@ @], NewId(DOMAIN h.f))

NewFace(h, v1, v2, v3, color, roughness) ==
    AddFace(h, FaceFromVectors(h, v1, v2, v3, color, roughness,
                               getVectorFrom2Points(h.v[v1].point, h.v[v2].point),
                               getVectorFrom2Points(h.v[v1].point, h.v[v3].point)))

\* Face.getClone passes no roughness
FaceGetClone(h, fid) ==
    The({The({The({NewFace(c3.h, c1.r, c2.r, c3.r, h.f[fid].color, Undefined) :
                     c3 \in {VertexGetClone(c2.h, h.f[fid].vertex3)}}) :
                c2 \in {VertexGetClone(c1.h, h.f[fid].vertex2)}}) :
         c1 \in {VertexGetClone(h, h.f[fid].vertex1)}})

\* new Light(pos, power, color): pos is a reference to a Point object
NewLight(h, pos, power, color) ==
    Ok([h EXCEPT !.l = NewId(DOMAIN h.l) :> [pos |-> pos, power |-> power, color |-> color] @@ @],
       NewId(DOMAIN h.l))

LightGetClone(h, lid) == NewLight(h, h.l[lid].pos, h.l[lid].power, h.l[lid].color)

\* math.js getLengthFrom2Points: the distance between two points
getLengthFrom2Points(p1, p2) == VectorLength(getVectorFrom2Points(p1, p2))

\* math.js getSTFrom3Vectors: the s and t with p = s * v1 + t * v2, by the
\* 2x2 linear solve of the specification (sections 3 and 4.5), here on the
\* system of inner products [v1.v1 v1.v2; v1.v2 v2.v2] [s; t] = [p.v1; p.v2].
\* A zero determinant (v1 and v2 parallel) divides by zero as the code would.
STDeterminant(v1, v2) ==
    Sub(Mul(getInnerProduct(v1, v1), getInnerProduct(v2, v2)),
        Mul(getInnerProduct(v1, v2), getInnerProduct(v1, v2)))

getSTFrom3Vectors(p, v1, v2) ==
    [s |-> Div(Sub(Mul(getInnerProduct(p, v1), getInnerProduct(v2, v2)),
                   Mul(getInnerProduct(p, v2), getInnerProduct(v1, v2))),
               STDeterminant(v1, v2)),
     t |-> Div(Sub(Mul(getInnerProduct(p, v2), getInnerProduct(v1, v1)),
                   Mul(getInnerProduct(p, v1), getInnerProduct(v1, v2))),
               STDeterminant(v1, v2))]

\* s >= 0 && t >= 0 && s + t <= 1
InsideST(ST) ==
    /\ Geq(ST.s, Num(0))
    /\ Geq(ST.t, Num(0))
    /\ Leq(Add(ST.s, ST.t), Num(1))

\* Face.isPointOnFace: reads the vertex1 the face holds now and the vector1
\* and vector2 its constructor stored
FaceIsPointOnFace(h, fid, point) ==
    InsideST(getSTFrom3Vectors(getVectorFrom2Points(h.v[h.f[fid].vertex1].point, point),
                               h.f[fid].vector1, h.f[fid].vector2))

\* The first argument of the intersection queries: an Edge object of the
\* heap or a HalfLine value.
EdgeRay(eid) == [kind |-> "Edge", id |-> eid, hl |-> HalfLine(Point(Num(0), Num(0), Num(0)), Vector(Num(0), Num(0), Num(0)))]

HalfLineRay(hl) == [kind |-> "HalfLine", id |-> 0, hl |-> hl]

\* edgeOrHalfLine.getIntersectionWithPlane(plane), dispatched on the class
RayGetIntersectionWithPlane(h, ray, plane) ==
    IF ray.kind = "Edge"
    THEN [r |-> EdgeGetIntersectionWithPlane(h, ray.id, plane).r,
          err |-> EdgeGetIntersectionWithPlane(h, ray.id, plane).err]
    ELSE HalfLineGetIntersectionWithPlane(ray.hl, plane)

\* The test of the intersection against the face, once it is known
IntersectionOnFace(h, fid, ix) ==
    IF ix.err THEN [r |-> Null, err |-> TRUE]
    ELSE IF ix.r # Null /\ FaceIsPointOnFace(h, fid, ix.r[1]) THEN [r |-> ix.r, err |-> FALSE]
    ELSE [r |-> Null, err |-> FALSE]

\* getIntersectionEdgeOrHalfLineAndFace: [r |-> the intersection or Null, err |-> threw]
getIntersectionEdgeOrHalfLineAndFace(h, ray, fid) ==
    IntersectionOnFace(h, fid, RayGetIntersectionWithPlane(h, ray, h.f[fid].plane))

\* The point the distances are measured from: edgeOrHalfLine.vertex1.point
\* of an Edge, edgeOrHalfLine.point of a HalfLine
RayOrigin(h, ray) ==
    IF ray.kind = "Edge" THEN h.v[h.e[ray.id].vertex1].point ELSE ray.hl.point

\* { face, intersection, length }
Hit(h, ray, fid, intersection) ==
    [face |-> fid, intersection |-> intersection,
     length |-> getLengthFrom2Points(RayOrigin(h, ray), intersection)]

\* One turn of the loop over faces: continue on null, push otherwise
PushIntersection(h, ray, fid, acc, ix) ==
    IF ix.err THEN [r |-> acc.r, err |-> TRUE]
    ELSE IF ix.r = Null THEN acc
    ELSE [r |-> Append(acc.r, Hit(h, ray, fid, ix.r[1])), err |-> FALSE]

\* for (const face of faces) { ... } from the k-th face on; a throw ends the loop
RECURSIVE IntersectionsFrom(_, _, _, _, _)
IntersectionsFrom(h, ray, fs, k, acc) ==
    IF acc.err \/ k > Len(fs) THEN acc
    ELSE IntersectionsFrom(h, ray, fs, k + 1,
                           PushIntersection(h, ray, fs[k], acc,
                                            getIntersectionEdgeOrHalfLineAndFace(h, ray, fs[k])))

\* The comparator (a, b) => a.length - b.length says a comes after b
ComesAfter(a, b) == Gt(Sub(a.length, b.length), Num(0))

\* x put into a sorted list behind every entry that does not come after it
RECURSIVE InsertByLength(_, _)
InsertByLength(list, x) ==
    IF list = <<>> THEN <<x>>
    ELSE IF ComesAfter(list[Len(list)], x)
    THEN Append(InsertByLength(SubSeq(list, 1, Len(list) - 1), x), list[Len(list)])
    ELSE Append(list, x)

RECURSIVE SortedPrefix(_, _)
SortedPrefix(list, n) ==
    IF n = 0 THEN <<>> ELSE InsertByLength(SortedPrefix(list, n - 1), list[n])

\* The list left as the loop pushed it
Unsorted(list) == list

\* returnsList.sort((a, b) => a.length - b.length): a stable sort
SortByLength(list) == SortedPrefix(list, Len(list))

\* getIntersectionsEdgeOrHalfLineAndFaces: [r |-> the sorted list, err |-> threw]
SortIntersections(found) ==
    IF found.err THEN [r |-> <<>>, err |-> TRUE]
    ELSE [r |-> SortByLength(found.r), err |-> FALSE]

getIntersectionsEdgeOrHalfLineAndFaces(h, ray, fs) ==
    SortIntersections(IntersectionsFrom(h, ray, fs, 1, [r |-> <<>>, err |-> FALSE]))

\* new Point(x, y, z) as an object of its own
NewPoint(h, px, py, pz) ==
    Ok([h EXCEPT !.p = NewId(DOMAIN h.p) :> Point(px, py, pz) @@ @], NewId(DOMAIN h.p))

EmptyHeap == [v |-> <<>>, e |-> <<>>, f |-> <<>>, l |-> <<>>, p |-> <<>>]

(***************************************************************************)
(* The shape operations applied by a caller to objects it holds            *)
(* (ShapeSpec): construction, getClone, Vertex.move, clipping and the      *)
(* intersection queries, on inputs drawn from small pools.                 *)
(***************************************************************************)
\* How many edges and faces the caller of ShapeSpec holds at most.
MaxObjects == 2

MaxCoord == 3

MaxMoves == 1

P3(px, py, pz) == Point(Num(px), Num(py), Num(pz))

\* Vertex positions: behind, on and in front of the plane y = 0, on and off the axes.
VertexPool ==
    <<P3(0, -2, 0), P3(0, 0, 0), P3(0, 2, 0), P3(1, 2, 2), P3(-1, -2, -2)>>

\* y = 0 facing +y, the same plane with a longer normal, x + y = 0, and x - y = 1.
PlanePool ==
    { getPlaneFromVectorAndPoint(Vector(Num(0), Num(1), Num(0)), P3(0, 0, 0)),
      getPlaneFromVectorAndPoint(Vector(Num(0), Num(3), Num(0)), P3(0, 0, 0)),
      getPlaneFromVectorAndPoint(Vector(Num(1), Num(1), Num(0)), P3(0, 0, 0)),
      getPlaneFromVectorAndPoint(Vector(Num(1), Num(-1), Num(0)), P3(1, 0, 0)),
      getPlaneFromVectorAndPoint(Vector(Num(-1), Num(1), Num(0)), P3(1, 0, 0)) }

MoveVectors == { Vector(Num(0), Num(1), Num(0)), Vector(Num(1), Num(0), Num(-1)) }

HalfLinePool ==
    { HalfLine(P3(0, 0, 0), Vector(Num(1), Num(1), Num(1))),
      HalfLine(P3(0, 0, 0), Vector(Num(0), Num(1), Num(0))),
      HalfLine(P3(0, -1, 0), Vector(Num(1), Num(2), Num(0))),
      HalfLine(P3(0, 1, 0), Vector(Num(0), Num(1), Num(2))),
      HalfLine(P3(0, 1, 0), Vector(Num(-1), Num(-1), Num(-1))) }

NoPlane == Plane(Num(0), Num(0), Num(0), Num(0))

NoHalfLine == HalfLine(P3(0, 0, 0), Vector(Num(0), Num(0), Num(0)))

\* The record of the last operation: its name, the object it was called on,
\* its arguments, the endpoints (Vertex records) of the edge before the call,
\* what it returned and whether it threw.
Last(op, target, plane, hl, pre, r, ix, err, again) ==
    [op |-> op, target |-> target, plane |-> plane, hl |-> hl, pre |-> pre,
     r |-> r, ix |-> ix, err |-> err, again |-> again]

NoLast == Last("none", 0, NoPlane, NoHalfLine, <<>>, 0, Null, FALSE, FALSE)

RECURSIVE PoolHeap(_)
PoolHeap(n) ==
    IF n = 0 THEN EmptyHeap
    ELSE NewVertex(PoolHeap(n - 1), VertexPool[n].x, VertexPool[n].y, VertexPool[n].z, n).h

Endpoints(h, eid) == <<h.v[h.e[eid].vertex1], h.v[h.e[eid].vertex2]>>

InBox(p) ==
    /\ Leq(Num(-MaxCoord), p.x) /\ Leq(p.x, Num(MaxCoord))
    /\ Leq(Num(-MaxCoord), p.y) /\ Leq(p.y, Num(MaxCoord))
    /\ Leq(Num(-MaxCoord), p.z) /\ Leq(p.z, Num(MaxCoord))

\* The vertices some edge or face of the heap refers to.
UsedVertices(h) ==
    {h.e[e].vertex1 : e \in DOMAIN h.e} \cup {h.e[e].vertex2 : e \in DOMAIN h.e}
    \cup {h.e[e].line.point : e \in DOMAIN h.e}
    \cup {h.f[f].vertex1 : f \in DOMAIN h.f} \cup {h.f[f].vertex2 : f \in DOMAIN h.f}
    \cup {h.f[f].vertex3 : f \in DOMAIN h.f}

\* Clipping needs the length of the edge's stored vector, which the model
\* computes only when it is rational.
NeedsLength(ix) == ~ix.err /\ ix.r # Null

ClipComputable(h, eid, plane) ==
    NeedsLength(EdgeGetIntersectionWithPlane(h, eid, plane)) =>
        HasRationalRoot(getInnerProduct(h.e[eid].vector, h.e[eid].vector))

ShapeUnchanged == UNCHANGED <<vertexes, edges, faces, lights, cameras, boundaryIsFront, parallelResult>>

\* new Edge(vertexes[a], vertexes[b])
ConstructEdge(a, b) ==
    /\ Cardinality(DOMAIN heap.e) + Cardinality(DOMAIN heap.f) < MaxObjects
    /\ a # b
    /\ \E res \in {NewEdge(heap, a, b)} :
           /\ heap' = res.h
           /\ last' = Last("newEdge", 0, NoPlane, NoHalfLine, <<>>, res.r, Null, FALSE, FALSE)
    /\ UNCHANGED <<moves, frames>>
    /\ ShapeUnchanged

\* edge.getClone()
CloneEdge(eid) ==
    /\ Cardinality(DOMAIN heap.e) + Cardinality(DOMAIN heap.f) < MaxObjects
    /\ \E res \in {EdgeGetClone(heap, eid)} :
           /\ heap' = res.h
           /\ last' = Last("cloneEdge", eid, NoPlane, NoHalfLine, Endpoints(heap, eid),
                           res.r, Null, FALSE, FALSE)
    /\ UNCHANGED <<moves, frames>>
    /\ ShapeUnchanged

\* vertex.move(vector) on a vertex of an edge or a face; the caller drops the clone it returns
MoveVertex(vid, vector) ==
    /\ moves < MaxMoves
    /\ vid \in UsedVertices(heap)
    /\ InBox(PointMove(heap.v[vid].point, vector))
    /\ \E res \in {VertexMove(heap, vid, vector)} :
           /\ heap' = [res.h EXCEPT !.v = [w \in DOMAIN heap.v |-> res.h.v[w]]]
           /\ last' = Last("moveVertex", vid, NoPlane, NoHalfLine, <<heap.v[vid]>>,
                           0, Null, FALSE, FALSE)
    /\ moves' = moves + 1
    /\ UNCHANGED frames
    /\ ShapeUnchanged

\* edge.setVertexInFrontOfCamera(plane); the caller keeps the edge it returns
ClipEdge(eid, plane) ==
    /\ Cardinality(DOMAIN heap.e) + Cardinality(DOMAIN heap.f) < MaxObjects
    /\ ClipComputable(heap, eid, plane)
    /\ \E res \in {setVertexInFrontOfCamera(heap, eid, plane)}, ix \in {EdgeGetIntersectionWithPlane(heap, eid, plane)} :
           /\ heap' = res.h
           /\ last' = Last("clip", eid, plane, NoHalfLine, Endpoints(heap, eid), res.r,
                           ix.r, res.err, FALSE)
    /\ UNCHANGED <<moves, frames>>
    /\ ShapeUnchanged

\* new Face(vertexes[a], vertexes[b], vertexes[c], color, roughness)
ConstructFace(a, b, c) ==
    /\ Cardinality(DOMAIN heap.e) + Cardinality(DOMAIN heap.f) < MaxObjects
    /\ a < b /\ b < c
    /\ \E res \in {NewFace(heap, a, b, c, "red", "rough")} :
           /\ heap' = res.h
           /\ last' = Last("newFace", 0, NoPlane, NoHalfLine, <<>>, res.r, Null, FALSE, FALSE)
    /\ UNCHANGED <<moves, frames>>
    /\ ShapeUnchanged

\* face.getClone()
CloneFace(fid) ==
    /\ Cardinality(DOMAIN heap.e) + Cardinality(DOMAIN heap.f) < MaxObjects
    /\ \E res \in {FaceGetClone(heap, fid)} :
           /\ heap' = res.h
           /\ last' = Last("cloneFace", fid, NoPlane, NoHalfLine, <<>>, res.r, Null, FALSE, FALSE)
    /\ UNCHANGED <<moves, frames>>
    /\ ShapeUnchanged

ShapeInit ==
    /\ heap = PoolHeap(Len(VertexPool))
    /\ vertexes = <<>>
    /\ edges = <<>>
    /\ faces = <<>>
    /\ lights = <<>>
    /\ cameras = <<>>
    /\ last = NoLast
    /\ moves = 0
    /\ frames = 0
    /\ boundaryIsFront \in BOOLEAN
    /\ parallelResult \in ParallelResults

ShapeNext ==
    \/ \E a, b \in 1..Len(VertexPool) : ConstructEdge(a, b)
    \/ \E eid \in DOMAIN heap.e : CloneEdge(eid)
    \/ \E vid \in DOMAIN heap.v, vector \in MoveVectors : MoveVertex(vid, vector)
    \/ \E eid \in DOMAIN heap.e, plane \in PlanePool : ClipEdge(eid, plane)
    \/ \E a, b, c \in 1..Len(VertexPool) : ConstructFace(a, b, c)
    \/ \E fid \in DOMAIN heap.f : CloneFace(fid)

ShapeSpec == ShapeInit /\ [][ShapeNext]_vars

(***************************************************************************)
(* The clipping and intersection functions on drawn inputs (ClipSpec):     *)
(* Init draws an edge between two pool vertices, a plane and a half-line;  *)
(* the actions apply the functions to them.                                *)
(***************************************************************************)
\* edge.getIntersectionWithPlane(plane)
IntersectEdge ==
    /\ last.op = "none"
    /\ \E ix \in {EdgeGetIntersectionWithPlane(heap, last.target, last.plane)} :
           last' = [last EXCEPT !.op = "edgeIntersect", !.pre = Endpoints(heap, last.target),
                                !.ix = ix.r, !.err = ix.err]
    /\ UNCHANGED <<heap, moves, frames>>
    /\ ShapeUnchanged

\* halfLine.getIntersectionWithPlane(plane)
IntersectHalfLine ==
    /\ last.op = "none"
    /\ \E ix \in {HalfLineGetIntersectionWithPlane(last.hl, last.plane)} :
           last' = [last EXCEPT !.op = "halfLineIntersect", !.ix = ix.r, !.err = ix.err]
    /\ UNCHANGED <<heap, moves, frames>>
    /\ ShapeUnchanged

\* edge.setVertexInFrontOfCamera(plane)
Clip ==
    /\ last.op = "none"
    /\ ClipComputable(heap, last.target, last.plane)
    /\ \E res \in {setVertexInFrontOfCamera(heap, last.target, last.plane)}, ix \in {EdgeGetIntersectionWithPlane(heap, last.target, last.plane)} :
           /\ heap' = res.h
           /\ last' = [last EXCEPT !.op = "clip", !.pre = Endpoints(heap, last.target),
                                   !.r = res.r, !.ix = ix.r, !.err = res.err]
    /\ UNCHANGED <<moves, frames>>
    /\ ShapeUnchanged

\* edge.setVertexInFrontOfCamera(plane).setVertexInFrontOfCamera(plane): the second call
ClipAgain ==
    /\ last.op = "clip"
    /\ ~last.err
    /\ ~last.again
    /\ ClipComputable(heap, last.r, last.plane)
    /\ \E res \in {setVertexInFrontOfCamera(heap, last.r, last.plane)}, ix \in {EdgeGetIntersectionWithPlane(heap, last.r, last.plane)} :
           /\ heap' = res.h
           /\ last' = [last EXCEPT !.target = last.r, !.pre = Endpoints(heap, last.r),
                                   !.r = res.r, !.ix = ix.r, !.err = res.err, !.again = TRUE]
    /\ UNCHANGED <<moves, frames>>
    /\ ShapeUnchanged

ClipInit ==
    /\ \E a, b \in 1..Len(VertexPool) :
          /\ a # b
          /\ heap = NewEdge(PoolHeap(Len(VertexPool)), a, b).h
    /\ vertexes = <<>>
    /\ edges = <<>>
    /\ faces = <<>>
    /\ lights = <<>>
    /\ cameras = <<>>
    /\ \E plane \in PlanePool, hl \in HalfLinePool :
          last = Last("none", 1, plane, hl, <<>>, 0, Null, FALSE, FALSE)
    /\ moves = 0
    /\ frames = 0
    /\ boundaryIsFront \in BOOLEAN
    /\ parallelResult \in ParallelResults

ClipNext == IntersectEdge \/ IntersectHalfLine \/ Clip \/ ClipAgain

ClipSpec == ClipInit /\ [][ClipNext]_vars

(***************************************************************************)
(* Properties of the shape objects (ShapeSpec)                             *)
(***************************************************************************)
EdgeDerived(h, eid) ==
    /\ h.e[eid].vector = getVectorFrom2Points(h.v[h.e[eid].vertex1].point,
                                              h.v[h.e[eid].vertex2].point)
    /\ h.e[eid].line.vector = h.e[eid].vector
    /\ h.v[h.e[eid].line.point].point = h.v[h.e[eid].vertex1].point

\* C2: every Edge object's stored vector is vertex2 - vertex1 of its current
\* endpoints and its stored line starts at the current vertex1, in every state
\* reached by construction, getClone, Vertex.move and setVertexInFrontOfCamera
\* (for the edge the clipping was called on and for the edge it returned).
C2_EdgeVectorIsDerived == \A eid \in DOMAIN heap.e : EdgeDerived(heap, eid)

FaceDerived(h, fid) ==
    /\ h.f[fid].vector1 = getVectorFrom2Points(h.v[h.f[fid].vertex1].point,
                                               h.v[h.f[fid].vertex2].point)
    /\ h.f[fid].vector2 = getVectorFrom2Points(h.v[h.f[fid].vertex1].point,
                                               h.v[h.f[fid].vertex3].point)
    /\ h.f[fid].normalVector = getCrossProduct(h.f[fid].vector1, h.f[fid].vector2)
    /\ h.f[fid].plane = getPlaneFromVectorAndPoint(h.f[fid].normalVector,
                                                   h.v[h.f[fid].vertex1].point)
    /\ PlaneValue(h.f[fid].plane, h.v[h.f[fid].vertex1].point) = Num(0)
    /\ PlaneValue(h.f[fid].plane, h.v[h.f[fid].vertex2].point) = Num(0)
    /\ PlaneValue(h.f[fid].plane, h.v[h.f[fid].vertex3].point) = Num(0)

\* C3: every Face's stored vector1, vector2, normalVector and plane are those
\* derived from its three vertices' current coordinates, and the plane
\* contains the three current vertices, in every state reached by
\* construction, getClone and Vertex.move on a corner.
C3_FacePlaneIsDerived == \A fid \in DOMAIN heap.f : FaceDerived(heap, fid)

(***************************************************************************)
(* Properties of clipping and the intersection queries (ClipSpec)          *)
(***************************************************************************)
Coords(o) == Point(o.x, o.y, o.z)

\* The endpoints (Vertex records) of the edge the last clipping returned.
Returned == Endpoints(heap, last.r)

Clipped == last.op = "clip"

\* C5: when the edge's segment has a valid intersection with the plane
\* (inside the endpoints' bounding box), the edge setVertexInFrontOfCamera
\* returns has both endpoints in front of the plane by plane.isPointInFrontOf,
\* also when one endpoint lies exactly on the plane.
C5_ClippedEdgeInFront ==
    (Clipped /\ ~last.err /\ last.ix # Null) =>
        /\ isPointInFrontOf(last.plane, Returned[1].point)
        /\ isPointInFrontOf(last.plane, Returned[2].point)

Front(k) == isPointInFrontOf(last.plane, last.pre[k].point)

OppositeSides == Front(1) # Front(2)

Kept(k) == Coords(Returned[k]) = Coords(last.pre[k])

\* C6: setVertexInFrontOfCamera replaces the position of exactly one endpoint,
\* the one behind the plane, exactly when the endpoints lie on opposite sides
\* of the plane; when both are in front, both are behind or the edge is
\* parallel to the plane it returns an edge with both coordinates unchanged.
C6_ReplacesExactlyTheBehindEndpoint ==
    Clipped =>
        /\ ~last.err
        /\ OppositeSides => /\ Front(1) => (Kept(1) /\ ~Kept(2))
                            /\ Front(2) => (Kept(2) /\ ~Kept(1))
        /\ ~OppositeSides => (Kept(1) /\ Kept(2))

SameEdge ==
    /\ Returned[1].i = last.pre[1].i
    /\ Returned[2].i = last.pre[2].i
    /\ Kept(1)
    /\ Kept(2)

\* C7: clipping is idempotent: an edge already fully in front of the plane
\* comes back with the same identities and coordinates, and a second
\* setVertexInFrontOfCamera(plane) on the result of a first one returns an
\* edge equal to the first result.
C7_ClipIdempotent ==
    /\ (Clipped /\ Front(1) /\ Front(2)) => (~last.err /\ SameEdge)
    /\ (Clipped /\ last.again) => (~last.err /\ SameEdge)

\* The line of the last intersection query, and whether it is parallel to the plane.
QueryLine ==
    IF last.op = "halfLineIntersect" THEN last.hl.line
    ELSE Line(last.pre[1].point, getVectorFrom2Points(last.pre[1].point, last.pre[2].point))

QueryParallel ==
    getInnerProduct(Vector(last.plane.a, last.plane.b, last.plane.c), QueryLine.vector) = Num(0)

\* The point where the (non-parallel) line meets the plane.
QueryMeets ==
    PointMove(QueryLine.point,
              multiplication(QueryLine.vector,
                  Div(Neg(PlaneValue(last.plane, QueryLine.point)),
                      getInnerProduct(Vector(last.plane.a, last.plane.b, last.plane.c),
                                      QueryLine.vector))))

QueryInRange ==
    IF last.op = "halfLineIntersect" THEN HalfLineIsPointInRange(last.hl, QueryMeets)
    ELSE EdgeIsPointInRange(heap, last.target, QueryMeets)

\* C8: Edge.getIntersectionWithPlane and HalfLine.getIntersectionWithPlane
\* return null, raising no error, whenever the line is parallel to the plane
\* or the line/plane intersection lies outside the edge's (half-line's)
\* range, and return the intersection point otherwise.
C8_IntersectionOrNull ==
    (last.op \in {"edgeIntersect", "halfLineIntersect"}) =>
        /\ ~last.err
        /\ IF QueryParallel THEN last.ix = Null
           ELSE IF QueryInRange THEN last.ix = Some(QueryMeets)
           ELSE last.ix = Null

(***************************************************************************)
(* The nearest-face query on drawn inputs (QuerySpec): Init draws a list   *)
(* of faces and a ray, an Edge or a HalfLine; the actions apply            *)
(* getIntersectionsEdgeOrHalfLineAndFaces to them.                         *)
(***************************************************************************)
\* How many faces the list of a query holds at most.
MaxFaces == 2

\* Vertices 1..11 and 15 are corners of faces; 9, 12, 13 and 14 are where rays start and end.
QueryVertexPool ==
    <<P3(-1, 1, -1), P3(2, 1, -1), P3(-1, 1, 2), P3(1, 1, -1), P3(-1, 1, 1),
      P3(-1, 2, -1), P3(2, 2, -1), P3(-1, 2, 2),
      P3(1, 0, 0), P3(1, 1, 0), P3(1, 0, 1),
      P3(0, 0, 0), P3(0, 1, 0), P3(0, 3, 0), P3(2, 1, 2)>>

\* Two overlapping triangles of the plane y = 1 that both hold (0, 1, 0), one
\* of the plane y = 2 that holds (0, 2, 0), one of the plane x = 1 with a
\* corner at (1, 0, 0), and one of the plane y = 1 away from the y axis.
QueryFacePool == << <<1, 2, 3>>, <<1, 4, 5>>, <<6, 7, 8>>, <<9, 10, 11>>, <<2, 15, 4>> >>

RayPoints == {9, 12, 13, 14}

RayVectors ==
    { Vector(Num(0), Num(1), Num(0)), Vector(Num(0), Num(-1), Num(0)),
      Vector(Num(1), Num(0), Num(0)) }

RECURSIVE QueryVertexHeap(_)
QueryVertexHeap(n) ==
    IF n = 0 THEN EmptyHeap
    ELSE NewVertex(QueryVertexHeap(n - 1), QueryVertexPool[n].x, QueryVertexPool[n].y,
                   QueryVertexPool[n].z, n).h

RECURSIVE QueryFaceHeap(_)
QueryFaceHeap(n) ==
    IF n = 0 THEN QueryVertexHeap(Len(QueryVertexPool))
    ELSE NewFace(QueryFaceHeap(n - 1), QueryFacePool[n][1], QueryFacePool[n][2],
                 QueryFacePool[n][3], "red", "rough").h

QueryHeap == QueryFaceHeap(Len(QueryFacePool))

\* The lists of up to MaxFaces different faces
FaceLists ==
    { fs \in UNION {[1..n -> DOMAIN QueryHeap.f] : n \in 0..MaxFaces} :
        \A j, k \in DOMAIN fs : j # k => fs[j] # fs[k] }

\* The ray the query is applied to
QueryRay == IF last.target # 0 THEN EdgeRay(last.target) ELSE HalfLineRay(last.hl)

\* The query takes a square root for every hit; the model computes it when
\* the root is rational.
HitComputable(h, ray, ix) ==
    (~ix.err /\ ix.r # Null) =>
        \/ ~IsFinite(getInnerProduct(getVectorFrom2Points(RayOrigin(h, ray), ix.r[1]),
                                     getVectorFrom2Points(RayOrigin(h, ray), ix.r[1])))
        \/ HasRationalRoot(getInnerProduct(getVectorFrom2Points(RayOrigin(h, ray), ix.r[1]),
                                           getVectorFrom2Points(RayOrigin(h, ray), ix.r[1])))

QueryComputable(h, ray, fs) ==
    \A k \in DOMAIN fs :
        HitComputable(h, ray, getIntersectionEdgeOrHalfLineAndFace(h, ray, fs[k]))

\* getIntersectionsEdgeOrHalfLineAndFaces(edge, faces)
QueryEdge ==
    /\ last.op = "none"
    /\ last.target # 0
    /\ QueryComputable(heap, QueryRay, faces)
    /\ \E res \in {getIntersectionsEdgeOrHalfLineAndFaces(heap, QueryRay, faces)} :
           last' = [last EXCEPT !.op = "queryEdge", !.r = res.r, !.err = res.err]
    /\ UNCHANGED <<heap, moves, frames>>
    /\ ShapeUnchanged

\* getIntersectionsEdgeOrHalfLineAndFaces(halfLine, faces)
QueryHalfLine ==
    /\ last.op = "none"
    /\ last.target = 0
    /\ QueryComputable(heap, QueryRay, faces)
    /\ \E res \in {getIntersectionsEdgeOrHalfLineAndFaces(heap, QueryRay, faces)} :
           last' = [last EXCEPT !.op = "queryHalfLine", !.r = res.r, !.err = res.err]
    /\ UNCHANGED <<heap, moves, frames>>
    /\ ShapeUnchanged

QueryInit ==
    /\ \/ \E a, b \in RayPoints :
             /\ a # b
             /\ heap = NewEdge(QueryHeap, a, b).h
             /\ last = Last("none", NewEdge(QueryHeap, a, b).r, NoPlane, NoHalfLine,
                            <<>>, <<>>, Null, FALSE, FALSE)
       \/ \E a \in RayPoints, vector \in RayVectors :
             /\ heap = QueryHeap
             /\ last = Last("none", 0, NoPlane, HalfLine(QueryVertexPool[a], vector),
                            <<>>, <<>>, Null, FALSE, FALSE)
    /\ vertexes = <<>>
    /\ edges = <<>>
    /\ faces \in FaceLists
    /\ lights = <<>>
    /\ cameras = <<>>
    /\ moves = 0
    /\ frames = 0
    /\ boundaryIsFront \in BOOLEAN
    /\ parallelResult \in ParallelResults

QueryNext == QueryEdge \/ QueryHalfLine

QuerySpec == QueryInit /\ [][QueryNext]_vars

(***************************************************************************)
(* Properties of the nearest-face query (QuerySpec)                        *)
(***************************************************************************)
Queried == last.op \in {"queryEdge", "queryHalfLine"}

\* The entry's length is the distance from the ray's origin to its intersection.
LengthIsDistance(hit) ==
    /\ Geq(hit.length, Num(0))
    /\ Mul(hit.length, hit.length)
         = getInnerProduct(getVectorFrom2Points(RayOrigin(heap, QueryRay), hit.intersection),
                           getVectorFrom2Points(RayOrigin(heap, QueryRay), hit.intersection))

\* C11: the sequence a query returns is sorted strictly ascending by the
\* distance from the ray's origin to each intersection.
C11_SortedStrictlyAscending ==
    (Queried /\ ~last.err) =>
        /\ \A k \in DOMAIN last.r : LengthIsDistance(last.r[k])
        /\ \A k \in 1..(Len(last.r) - 1) : Lt(last.r[k].length, last.r[k + 1].length)

\* C11, as the code has it: the sequence a query returns is sorted ascending
\* by the distance from the ray's origin to each intersection, two faces hit
\* at the same distance staying in the order of the face list; the nearest
\* hit is first.
C11_SortedAscending ==
    (Queried /\ ~last.err) =>
        /\ \A k \in DOMAIN last.r : LengthIsDistance(last.r[k])
        /\ \A j, k \in DOMAIN last.r : j < k => Leq(last.r[j].length, last.r[k].length)
        /\ \A j, k \in DOMAIN last.r :
              (j < k /\ last.r[j].length = last.r[k].length) =>
                  \E m, n \in DOMAIN faces :
                      m < n /\ faces[m] = last.r[j].face /\ faces[n] = last.r[k].face

\* A query whose second face is nearer than its first, returned nearest first.
C11_FartherFaceListedFirst ==
    /\ Queried
    /\ ~last.err
    /\ Len(faces) = 2
    /\ Len(last.r) = 2
    /\ last.r[1].face = faces[2]
    /\ last.r[2].face = faces[1]
    /\ Lt(last.r[1].length, last.r[2].length)

\* The line of the ray as its object holds it now
RayLine(h, ray) ==
    IF ray.kind = "Edge"
    THEN Line(h.v[h.e[ray.id].vertex1].point,
              getVectorFrom2Points(h.v[h.e[ray.id].vertex1].point, h.v[h.e[ray.id].vertex2].point))
    ELSE Line(ray.hl.point, ray.hl.vector)

FaceVector1(h, fid) == getVectorFrom2Points(h.v[h.f[fid].vertex1].point, h.v[h.f[fid].vertex2].point)

FaceVector2(h, fid) == getVectorFrom2Points(h.v[h.f[fid].vertex1].point, h.v[h.f[fid].vertex3].point)

FaceNormal(h, fid) == getCrossProduct(FaceVector1(h, fid), FaceVector2(h, fid))

\* Whether the line meets the plane of the face in one point
LineMeetsPlane(h, ray, fid) ==
    getInnerProduct(FaceNormal(h, fid), RayLine(h, ray).vector) # Num(0)

\* The point where the line meets the plane of the face
LineMeetsPlaneAt(h, ray, fid) ==
    PointMove(RayLine(h, ray).point,
              multiplication(RayLine(h, ray).vector,
                             Div(getInnerProduct(FaceNormal(h, fid),
                                                 getVectorFrom2Points(RayLine(h, ray).point,
                                                                      h.v[h.f[fid].vertex1].point)),
                                 getInnerProduct(FaceNormal(h, fid), RayLine(h, ray).vector))))

\* Whether the triangle contains the point where the ray's line meets its plane
TriangleContainsMeet(h, ray, fid) ==
    /\ LineMeetsPlane(h, ray, fid)
    /\ InsideST(getSTFrom3Vectors(getVectorFrom2Points(h.v[h.f[fid].vertex1].point,
                                                       LineMeetsPlaneAt(h, ray, fid)),
                                  FaceVector1(h, fid), FaceVector2(h, fid)))

EntriesOf(fid) == {k \in DOMAIN last.r : last.r[k].face = fid}

\* C12: the result has one entry for exactly the faces whose triangle
\* contains the point where the ray's line meets the face's plane, none for
\* any other face, and no error is raised.
C12_ExactlyTheContainingFaces ==
    Queried =>
        /\ ~last.err
        /\ \A k \in DOMAIN faces :
              Cardinality(EntriesOf(faces[k]))
                = IF TriangleContainsMeet(heap, QueryRay, faces[k]) THEN 1 ELSE 0
        /\ \A k \in DOMAIN last.r :
              /\ \E j \in DOMAIN faces : faces[j] = last.r[k].face
              /\ last.r[k].intersection = LineMeetsPlaneAt(heap, QueryRay, last.r[k].face)

(***************************************************************************)
(* math.js: sin, cos, Vector.rotate (modelled from the specification,      *)
(* sections 4.1 and 4.3).  Angles are in degrees.  The model computes with *)
(* exact numbers, so it evaluates sin and cos only at the multiples of 90  *)
(* degrees, where they are rational.                                       *)
(***************************************************************************)
TrigExact(deg) == deg % 90 = 0

sin(deg) == Num(IF deg % 360 = 90 THEN 1 ELSE IF deg % 360 = 270 THEN -1 ELSE 0)

cos(deg) == Num(IF deg % 360 = 0 THEN 1 ELSE IF deg % 360 = 180 THEN -1 ELSE 0)

\* The rotation of the Y/Z components by rx
RotateX(v, rx) ==
    Vector(v.x,
           Sub(Mul(cos(rx), v.y), Mul(sin(rx), v.z)),
           Add(Mul(sin(rx), v.y), Mul(cos(rx), v.z)))

\* The rotation of the X/Y components that getConvertedVertex undoes
RotateZ(v, rz) ==
    Vector(Add(Mul(cos(rz), v.x), Mul(sin(rz), v.y)),
           Sub(Mul(cos(rz), v.y), Mul(sin(rz), v.x)),
           v.z)

\* Vector.rotate(rx, rz): the forward rotation whose inverse is the
\* conversion of section 4.3, step 3 (rotate by rz, then by -rx)
rotate(v, rx, rz) == RotateZ(RotateX(v, rx), rz)

\* getSumOfVectors: the fold of the vectors' sum over a sequence
RECURSIVE getSumOfVectors(_)
getSumOfVectors(vs) ==
    IF vs = <<>> THEN Vector(Num(0), Num(0), Num(0))
    ELSE PointMove(getSumOfVectors(Tail(vs)), Head(vs))

(***************************************************************************)
(* camera.js (src/main.js from line 435): Camera                           *)
(***************************************************************************)
\* const rv = 2, the degrees an arrow key turns the camera by in one frame
rv == 2

\* The keys Camera.move reads
Keys == {"a", "d", "w", "s", " ", "Shift", "ArrowLeft", "ArrowRight", "ArrowUp", "ArrowDown"}

\* this.speed / this.fps
Velocity(cam) == Div(cam.speed, cam.fps)

MoveA(cam, key) ==
    IF "a" \in key
    THEN [cam EXCEPT !.pos.x = Sub(@, Mul(cos(cam.rz), Velocity(cam))),
                     !.pos.y = Add(@, Mul(sin(cam.rz), Velocity(cam)))]
    ELSE cam

MoveD(cam, key) ==
    IF "d" \in key
    THEN [cam EXCEPT !.pos.x = Add(@, Mul(cos(cam.rz), Velocity(cam))),
                     !.pos.y = Sub(@, Mul(sin(cam.rz), Velocity(cam)))]
    ELSE cam

MoveW(cam, key) ==
    IF "w" \in key
    THEN [cam EXCEPT !.pos.x = Add(@, Mul(sin(cam.rz), Velocity(cam))),
                     !.pos.y = Add(@, Mul(cos(cam.rz), Velocity(cam)))]
    ELSE cam

MoveS(cam, key) ==
    IF "s" \in key
    THEN [cam EXCEPT !.pos.x = Sub(@, Mul(sin(cam.rz), Velocity(cam))),
                     !.pos.y = Sub(@, Mul(cos(cam.rz), Velocity(cam)))]
    ELSE cam

MoveUpDown(cam, key) ==
    [cam EXCEPT !.pos.z = Sub(Add(@, IF " " \in key THEN Velocity(cam) ELSE Num(0)),
                              IF "Shift" \in key THEN Velocity(cam) ELSE Num(0))]

Turn(key, minus, plus) ==
    (IF plus \in key THEN rv ELSE 0) - (IF minus \in key THEN rv ELSE 0)

MoveTurn(cam, key) ==
    [cam EXCEPT !.rz = @ + Turn(key, "ArrowLeft", "ArrowRight"),
                !.rx = @ + Turn(key, "ArrowDown", "ArrowUp")]

\* Camera.move
move(cam, key) ==
    MoveTurn(MoveUpDown(MoveS(MoveW(MoveD(MoveA(cam, key), key), key), key), key), key)

updateNormalVector(cam) ==
    [cam EXCEPT !.normalVector = rotate(Vector(Num(0), cam.focalLength, Num(0)), cam.rx, cam.rz)]

updateFocusPoint(cam) ==
    [cam EXCEPT !.focus = Point(Sub(cam.pos.x, cam.normalVector.x),
                                Sub(cam.pos.y, cam.normalVector.y),
                                Sub(cam.pos.z, cam.normalVector.z))]

updatePlane(cam) ==
    [cam EXCEPT !.plane = getPlaneFromVectorAndPoint(cam.normalVector, cam.pos)]

Half(a) == Div(a, Num(2))

\* The four corner vectors, each rotated in place by rotate(rx, rz)
updateCornerVectorsFromPos(cam) ==
    [cam EXCEPT !.cornerVectorsFromPos =
        [topLeft |-> rotate(Vector(Neg(Half(cam.width)), Num(0), Half(cam.height)), cam.rx, cam.rz),
         topRight |-> rotate(Vector(Half(cam.width), Num(0), Half(cam.height)), cam.rx, cam.rz),
         bottomLeft |-> rotate(Vector(Neg(Half(cam.width)), Num(0), Neg(Half(cam.height))), cam.rx, cam.rz),
         bottomRight |-> rotate(Vector(Half(cam.width), Num(0), Neg(Half(cam.height))), cam.rx, cam.rz)]]

updateCornerPoints(cam) ==
    [cam EXCEPT !.cornerPoints =
        [corner \in {"topLeft", "topRight", "bottomLeft", "bottomRight"} |->
            PointMove(cam.pos, cam.cornerVectorsFromPos[corner])]]

OnCameraPlaneVector(cam) ==
    [toRight |-> getVectorFrom2Points(cam.cornerPoints.topLeft, cam.cornerPoints.topRight),
     toBottom |-> getVectorFrom2Points(cam.cornerPoints.topLeft, cam.cornerPoints.bottomLeft)]

updateOnCameraPlaneVector(cam) ==
    [cam EXCEPT !.onCameraPlaneVector = OnCameraPlaneVector(cam),
                !.onCameraPlane1pxVector =
                    [toRight |-> multiplication(OnCameraPlaneVector(cam).toRight,
                                                Div(Num(1), cam.canW)),
                     toBottom |-> multiplication(OnCameraPlaneVector(cam).toBottom,
                                                 Div(Num(1), cam.canH))]]

\* The seven steps with move run last, after the derived state
UpdatePoseMoveLast(cam, key) ==
    move(updatePlane(updateFocusPoint(updateOnCameraPlaneVector(updateCornerPoints(
             updateCornerVectorsFromPos(updateNormalVector(cam)))))), key)

\* The first seven steps of Camera.update: move, then the derived state
UpdatePose(cam, key) ==
    The({The({updatePlane(updateFocusPoint(updateOnCameraPlaneVector(updateCornerPoints(
                  cornered)))) :
                cornered \in {updateCornerVectorsFromPos(updateNormalVector(moved))}}) :
         moved \in {move(cam, key)}})

\* Camera.getCameraViewLayHalfLine(x, y)
getCameraViewLayHalfLine(cam, px, py) ==
    HalfLine(cam.focus,
             getSumOfVectors(<<multiplication(cam.onCameraPlane1pxVector.toBottom, py),
                               multiplication(cam.onCameraPlane1pxVector.toRight, px),
                               cam.cornerVectorsFromPos.topLeft,
                               cam.normalVector>>))

\* rayHalfLine.isOnIntersectionWithPlane(this.plane): shape.js defines no
\* method of this name, so HalfLine inherits it from Line of math.js.  It
\* is modelled from the specification, section 4.3, step 2: the ray from
\* the focus through the vertex, intersected with the view plane.
isOnIntersectionWithPlane(hl, plane) == HalfLineGetIntersectionWithPlane(hl, plane)

\* The result of a projection step: [r |-> Null or Some(value), err |-> threw]
NoVertex == [r |-> Null, err |-> FALSE]

Failed == [r |-> Null, err |-> TRUE]

\* new Vertex(intersection.x, intersection.y, intersection.z, vertex.i):
\* reading intersection.x throws when the intersection is null
ProjectedAt(vertex, ix) ==
    IF ix.err \/ ix.r = Null THEN Failed
    ELSE [r |-> Some(VertexObject(ix.r[1].x, ix.r[1].y, ix.r[1].z, vertex.i)), err |-> FALSE]

\* Camera.getProjectedVertex: null for a vertex that is not in front of the
\* view plane, else the point where the ray from the focus meets the plane
getProjectedVertex(cam, vertex) ==
    IF ~isPointInFrontOf(cam.plane, vertex.point) THEN NoVertex
    ELSE ProjectedAt(vertex,
             isOnIntersectionWithPlane(
                 HalfLine(cam.focus, getVectorFrom2Points(cam.focus, vertex.point)),
                 cam.plane))

ConvertXY(cam, v) ==
    Vector(Sub(Mul(cos(cam.rz), v.x), Mul(sin(cam.rz), v.y)),
           Add(Mul(sin(cam.rz), v.x), Mul(cos(cam.rz), v.y)),
           v.z)

ConvertYZ(cam, v) ==
    Vector(v.x,
           Sub(Mul(cos(-cam.rx), v.y), Mul(sin(-cam.rx), v.z)),
           Add(Mul(sin(-cam.rx), v.y), Mul(cos(-cam.rx), v.z)))

ConvertBack(cam, v, i) ==
    VertexObject(Add(v.x, cam.pos.x), Add(v.y, cam.pos.y), Add(v.z, cam.pos.z), i)

\* Camera.getConvertedVertex
getConvertedVertex(cam, vertex) ==
    ConvertBack(cam,
                ConvertYZ(cam, ConvertXY(cam, getVectorFrom2Points(cam.pos, vertex.point))),
                vertex.i)

\* { x, y } with the vertical axis not inverted
ToDrawFromUpright(cam, converted) ==
    [x |-> Add(Mul(Sub(converted.x, cam.pos.x), cam.expandingRatio), Half(cam.canW)),
     y |-> Add(Mul(Sub(converted.z, cam.pos.z), cam.expandingRatio), Half(cam.canH))]

\* { x, y } of getToDrawVertex
ToDrawFrom(cam, converted) ==
    [x |-> Add(Mul(Sub(converted.x, cam.pos.x), cam.expandingRatio), Half(cam.canW)),
     y |-> Add(Mul(Sub(converted.z, cam.pos.z), Neg(cam.expandingRatio)), Half(cam.canH))]

\* getToDrawVertex after the projection: beside the result, the vertices
\* the two steps produced
ToDrawConverted(cam, projected, converted) ==
    [r |-> Some(ToDrawFrom(cam, converted)), err |-> FALSE,
     projected |-> Some(projected), converted |-> Some(converted)]

ToDrawProjected(cam, projected) ==
    IF projected.err \/ projected.r = Null
    THEN [r |-> Null, err |-> projected.err, projected |-> Null, converted |-> Null]
    ELSE The({ToDrawConverted(cam, projected.r[1], converted) :
                converted \in {getConvertedVertex(cam, projected.r[1])}})

\* Camera.getToDrawVertex
getToDrawVertex(cam, vertex) ==
    The({ToDrawProjected(cam, projected) : projected \in {getProjectedVertex(cam, vertex)}})

(***************************************************************************)
(* The drawing passes.  A pass threads [h, calls, trace, seen, err]: the    *)
(* heap, the calls made on the drawing context so far, what became of each *)
(* edge (trace) and of each vertex (seen), and whether a TypeError ended   *)
(* the frame.                                                              *)
(***************************************************************************)
NoDrawing(h) == [h |-> h, calls |-> <<>>, trace |-> <<>>, seen |-> <<>>, err |-> FALSE]

\* What the edge pass records of one imported edge
EdgeTrace(k, clone, v1, v2, t1, t2, drawn, threw) ==
    [edge |-> k, clone |-> clone, vertex1 |-> v1, vertex2 |-> v2,
     toDraw1 |-> t1, toDraw2 |-> t2, drawn |-> drawn, threw |-> threw]

\* Lines 668 to 675: skip the edge when both projections are null, else
\* read x and y of both, which throws when exactly one is null, and draw
DrawProjected(fs, k, clone, v1, v2, t1, t2) ==
    IF t1.err \/ t2.err
    THEN [fs EXCEPT !.err = TRUE,
                    !.trace = Append(@, EdgeTrace(k, clone, v1, v2, t1, t2, FALSE, TRUE))]
    ELSE IF t1.r = Null /\ t2.r = Null
    THEN [fs EXCEPT !.trace = Append(@, EdgeTrace(k, clone, v1, v2, t1, t2, FALSE, FALSE))]
    ELSE IF t1.r = Null \/ t2.r = Null
    THEN [fs EXCEPT !.err = TRUE,
                    !.trace = Append(@, EdgeTrace(k, clone, v1, v2, t1, t2, FALSE, TRUE))]
    ELSE [fs EXCEPT !.calls = Append(@, [op |-> "drawLine",
                                          x1 |-> t1.r[1].x, y1 |-> t1.r[1].y,
                                          x2 |-> t2.r[1].x, y2 |-> t2.r[1].y]),
                    !.trace = Append(@, EdgeTrace(k, clone, v1, v2, t1, t2, TRUE, FALSE))]

DrawEndpoints(cam, fs, k, clone, v1, v2) ==
    The({The({DrawProjected(fs, k, clone, v1, v2, t1, t2) :
                t2 \in {getToDrawVertex(cam, v2)}}) :
         t1 \in {getToDrawVertex(cam, v1)}})

\* The edge pass once edge.getClone().setVertexInFrontOfCamera(this.plane) returned
DrawClipped(cam, fs, k, clone, clipped) ==
    IF clipped.err
    THEN [fs EXCEPT !.h = clipped.h, !.err = TRUE,
                    !.trace = Append(@, EdgeTrace(k, clone, Null, Null, Null, Null, FALSE, TRUE))]
    ELSE DrawEndpoints(cam, [fs EXCEPT !.h = clipped.h], k, clone,
                       clipped.h.v[clipped.h.e[clipped.r].vertex1],
                       clipped.h.v[clipped.h.e[clipped.r].vertex2])

\* The edge pass clipping the imported edge itself: edge.setVertexInFrontOfCamera(this.plane)
DrawEdgeInPlace(cam, fs, k) ==
    The({DrawClipped(cam, fs, k, Endpoints(fs.h, cam.importedEdges[k]), clipped) :
           clipped \in {setVertexInFrontOfCamera(fs.h, cam.importedEdges[k], cam.plane)}})

\* const convertedEdge = edge.getClone().setVertexInFrontOfCamera(this.plane)
DrawEdge(cam, fs, k) ==
    The({The({DrawClipped(cam, fs, k, Endpoints(cloned.h, cloned.r), clipped) :
                clipped \in {setVertexInFrontOfCamera(cloned.h, cloned.r, cam.plane)}}) :
         cloned \in {EdgeGetClone(fs.h, cam.importedEdges[k])}})

RECURSIVE DrawEdgesFrom(_, _, _)
DrawEdgesFrom(cam, fs, k) ==
    IF fs.err \/ k > Len(cam.importedEdges) THEN fs
    ELSE The({DrawEdgesFrom(cam, next, k + 1) : next \in {DrawEdge(cam, fs, k)}})

\* Camera.drawEdges
drawEdges(cam, fs) == DrawEdgesFrom(cam, fs, 1)

\* drawCircle(this.con, dx, dy, 2.5) and this.con.fillText(vertex.i, dx, dy)
DrawToDraw(fs, vertex, t) ==
    IF t.err THEN [fs EXCEPT !.err = TRUE, !.seen = Append(@, [i |-> vertex.i, toDraw |-> t])]
    ELSE IF t.r = Null THEN [fs EXCEPT !.seen = Append(@, [i |-> vertex.i, toDraw |-> t])]
    ELSE [fs EXCEPT !.calls = @ \o <<[op |-> "drawCircle", x |-> t.r[1].x, y |-> t.r[1].y,
                                      r |-> <<5, 2>>],
                                     [op |-> "fillText", text |-> vertex.i,
                                      x |-> t.r[1].x, y |-> t.r[1].y]>>,
                    !.seen = Append(@, [i |-> vertex.i, toDraw |-> t])]

DrawVertex(cam, fs, vertex) ==
    The({DrawToDraw(fs, vertex, t) : t \in {getToDrawVertex(cam, vertex)}})

RECURSIVE DrawVertexesFrom(_, _, _)
DrawVertexesFrom(cam, fs, k) ==
    IF fs.err \/ k > Len(cam.importedVertexes) THEN fs
    ELSE The({DrawVertexesFrom(cam, next, k + 1) :
                next \in {DrawVertex(cam, fs, fs.h.v[cam.importedVertexes[k]])}})

\* Camera.drawVertexes
drawVertexes(cam, fs) == DrawVertexesFrom(cam, fs, 1)

\* What Camera.update leaves: [cam, h, calls, trace, seen, err]
Drawn(cam, fs) ==
    [cam |-> cam, h |-> fs.h, calls |-> fs.calls, trace |-> fs.trace, seen |-> fs.seen,
     err |-> fs.err]

\* Camera.update: move and the derived state, then this.drawEdges(), then
\* this.drawVertexes(), which an error in drawEdges keeps from running
update(cam, key, h) ==
    The({The({Drawn(posed, drawVertexes(posed, edgesDrawn)) :
                edgesDrawn \in {drawEdges(posed, NoDrawing(h))}}) :
         posed \in {UpdatePose(cam, key)}})

\* array.map(object => object.getClone()) over one of the scene arrays
CloneOne(kind, h, id) ==
    IF kind = "vertex" THEN VertexGetClone(h, id)
    ELSE IF kind = "edge" THEN EdgeGetClone(h, id)
    ELSE IF kind = "face" THEN FaceGetClone(h, id)
    ELSE LightGetClone(h, id)

CloneNext(acc, c) == [h |-> c.h, r |-> Append(acc.r, c.r)]

RECURSIVE CloneAll(_, _, _)
CloneAll(kind, acc, ids) ==
    IF ids = <<>> THEN acc
    ELSE The({CloneAll(kind, next, Tail(ids)) :
                next \in {CloneNext(acc, CloneOne(kind, acc.h, Head(ids)))}})

Imported(h, ids, kind) == CloneAll(kind, [h |-> h, r |-> <<>>], ids)

\* Camera.importShapes over the scene arrays vs, es, fs, ls: [h, cam]
importShapes(cam, h, vs, es, fs, ls) ==
    The({The({The({The({[h |-> il.h,
                         cam |-> [cam EXCEPT !.importedVertexes = iv.r,
                                             !.importedEdges = ie.r,
                                             !.importedFaces = jf.r,
                                             !.importedLights = il.r]] :
                        il \in {Imported(jf.h, ls, "light")}}) :
                   jf \in {Imported(ie.h, fs, "face")}}) :
              ie \in {Imported(iv.h, es, "edge")}}) :
         iv \in {Imported(h, vs, "vertex")}})

\* The fields the constructor assigns; update() sets the derived ones
CameraObject(pos, rx, rz, focalLength, width, height, canW, canH, ratio, fps, speed) ==
    [pos |-> pos, rx |-> rx, rz |-> rz, focalLength |-> focalLength,
     width |-> width, height |-> height, canW |-> canW, canH |-> canH,
     expandingRatio |-> ratio, fps |-> fps, speed |-> speed,
     importedVertexes |-> <<>>, importedEdges |-> <<>>,
     importedFaces |-> <<>>, importedLights |-> <<>>,
     normalVector |-> Undefined, cornerVectorsFromPos |-> Undefined,
     cornerPoints |-> Undefined, onCameraPlaneVector |-> Undefined,
     onCameraPlane1pxVector |-> Undefined, focus |-> Undefined, plane |-> Undefined]

\* new Camera(...): this.importShapes(); this.update()
CameraConstructor(cam, key, h, vs, es, fs, ls) ==
    The({update(im.cam, key, im.h) : im \in {importShapes(cam, h, vs, es, fs, ls)}})

(***************************************************************************)
(* What a frame leaves behind.  The clones and vertices a frame makes are  *)
(* dropped when it ends unless an object that outlives the frame refers to *)
(* them: the heap keeps what the scene arrays and the cameras' imported    *)
(* arrays reach.                                                           *)
(***************************************************************************)
Range(seq) == {seq[k] : k \in DOMAIN seq}

CameraRoots(cams, field) == UNION {Range(cams[c][field]) : c \in DOMAIN cams}

LiveEdges(cams) == Range(edges) \cup CameraRoots(cams, "importedEdges")

LiveFaces(cams) == Range(faces) \cup CameraRoots(cams, "importedFaces")

LiveLights(cams) == Range(lights) \cup CameraRoots(cams, "importedLights")

LiveVertexes(h, cams) ==
    Range(vertexes) \cup CameraRoots(cams, "importedVertexes")
    \cup UNION {{h.e[e].vertex1, h.e[e].vertex2, h.e[e].line.point} : e \in LiveEdges(cams)}
    \cup UNION {{h.f[f].vertex1, h.f[f].vertex2, h.f[f].vertex3} : f \in LiveFaces(cams)}

Restrict(f, keep) == [x \in DOMAIN f \cap keep |-> f[x]]

Collect(h, cams) ==
    [v |-> Restrict(h.v, LiveVertexes(h, cams)),
     e |-> Restrict(h.e, LiveEdges(cams)),
     f |-> Restrict(h.f, LiveFaces(cams)),
     l |-> Restrict(h.l, LiveLights(cams)),
     p |-> Restrict(h.p, {h.l[l].pos : l \in LiveLights(cams)})]

(***************************************************************************)
(* The scene and the cameras (Spec): a caller builds the scene arrays,     *)
(* constructs cameras over them and runs their frames while keys are held. *)
(***************************************************************************)
\* const CAMERA_W = 3.2, CAMERA_H = 1.8, expandingRatio = 64
CAMERA_W == <<16, 5>>

CAMERA_H == <<9, 5>>

expandingRatio == 64

CAN_W == Mul(CAMERA_W, Num(expandingRatio))

CAN_H == Mul(CAMERA_H, Num(expandingRatio))

\* new Camera(new Point(0, -1, 0), 0, 0, 3, CAMERA_W, CAMERA_H)
ExamplePos == P3(0, -1, 0)

ExampleFocalLength == 3

\* setInterval(mainLoop, 1000 / 60)
Fps == 60

\* The speed that moves the camera by one unit each frame
Speed == Fps

\* How many cameras are constructed over the scene, how many frames mainLoop
\* runs and how far from the origin along each axis a camera is followed
MaxCameras == 2

MaxFrames == 2

MaxPos == 1

\* A segment of length 1 ahead of the camera along the y axis, a slanted
\* segment of length 3, the triangle they span and a light above it
SceneVertexes == <<P3(0, 0, 0), P3(0, 1, 0), P3(1, 2, 2)>>

RECURSIVE SceneVertexHeap(_)
SceneVertexHeap(n) ==
    IF n = 0 THEN EmptyHeap
    ELSE NewVertex(SceneVertexHeap(n - 1),
                   SceneVertexes[n].x, SceneVertexes[n].y, SceneVertexes[n].z, n).h

SceneEdgeHeap == NewEdge(NewEdge(SceneVertexHeap(Len(SceneVertexes)), 1, 2).h, 1, 3).h

SceneFaceHeap == NewFace(SceneEdgeHeap, 1, 2, 3, Undefined, Undefined).h

SceneHeap == NewLight(NewPoint(SceneFaceHeap, Num(0), Num(0), Num(3)).h, 1, Num(1), "white").h

\* The keys held during a frame: each key of Camera.move alone, and the
\* pairs of arrow keys whose turns cancel
KeySets ==
    { {}, {"w"}, {"s"}, {"a"}, {"d"}, {" "}, {"Shift"},
      {"ArrowLeft", "ArrowRight"}, {"ArrowUp", "ArrowDown"}, {"ArrowRight"} }

\* The keys held while a camera is constructed
StartKeys == { {}, {"ArrowRight"} }

\* The angles a camera is constructed with
StartAngles == {0, 90 - rv}

InView(pos) ==
    /\ Leq(Num(0), pos.x) /\ Leq(pos.x, Num(MaxPos))
    /\ Leq(Num(-MaxPos), pos.y) /\ Leq(pos.y, Num(MaxPos))
    /\ Leq(Num(0), pos.z) /\ Leq(pos.z, Num(MaxPos))

\* The frames the model follows: those whose sines and cosines are rational
\* and that keep the camera in view of the scene
MoveComputable(cam, key) ==
    /\ (key \cap {"a", "d", "w", "s"} # {}) => TrigExact(cam.rz)
    /\ TrigExact(move(cam, key).rz)
    /\ TrigExact(move(cam, key).rx)
    /\ InView(move(cam, key).pos)

\* The record of the last frame: the camera that ran it, the keys held
\* during it, the calls it made on the drawing context, what became of each
\* edge and of each vertex, whether it threw
Frame(op, camera, key, res) ==
    [op |-> op, camera |-> camera, key |-> key, calls |-> res.calls, trace |-> res.trace,
     seen |-> res.seen, err |-> res.err]

NoFrame ==
    [op |-> "none", camera |-> 0, key |-> {}, calls |-> <<>>, trace |-> <<>>, seen |-> <<>>,
     err |-> FALSE]

SceneUnchanged ==
    UNCHANGED <<vertexes, edges, faces, lights, moves, boundaryIsFront, parallelResult>>

\* camera = new Camera(new Point(...), rx, rz, ...) while the keys of key are
\* held; a constructor that throws yields no camera
NewCamera(rx, rz, key) ==
    /\ Len(cameras) < MaxCameras
    /\ MoveComputable(CameraObject(ExamplePos, rx, rz, Num(ExampleFocalLength), CAMERA_W,
                                   CAMERA_H, CAN_W, CAN_H, Num(expandingRatio),
                                   Num(Fps), Num(Speed)), key)
    /\ \E res \in {CameraConstructor(
                       CameraObject(ExamplePos, rx, rz, Num(ExampleFocalLength), CAMERA_W,
                                    CAMERA_H, CAN_W, CAN_H, Num(expandingRatio),
                                    Num(Fps), Num(Speed)),
                       key, heap, vertexes, edges, faces, lights)} :
          /\ cameras' = IF res.err THEN cameras ELSE Append(cameras, res.cam)
          /\ heap' = Collect(res.h, cameras')
          /\ last' = Frame("new Camera", Len(cameras) + 1, key, res)
    /\ UNCHANGED frames
    /\ SceneUnchanged

\* mainLoop: cameras[c].update() while the keys of key are held
Update(c, key) ==
    /\ frames < MaxFrames
    /\ MoveComputable(cameras[c], key)
    /\ \E res \in {update(cameras[c], key, heap)} :
          /\ cameras' = [cameras EXCEPT ![c] = res.cam]
          /\ heap' = Collect(res.h, cameras')
          /\ last' = Frame("update", c, key, res)
    /\ frames' = frames + 1
    /\ SceneUnchanged

Init ==
    /\ heap = SceneHeap
    /\ vertexes = <<1, 2, 3>>
    /\ edges = <<1, 2>>
    /\ faces = <<1>>
    /\ lights = <<1>>
    /\ cameras = <<>>
    /\ last = NoFrame
    /\ moves = 0
    /\ frames = 0
    /\ boundaryIsFront \in BOOLEAN
    /\ parallelResult \in ParallelResults

Next ==
    \/ \E rx \in {0}, rz \in StartAngles, key \in StartKeys : NewCamera(rx, rz, key)
    \/ \E c \in DOMAIN cameras, key \in KeySets : Update(c, key)

Spec == Init /\ [][Next]_vars

(***************************************************************************)
(* Properties of the frames (Spec)                                         *)
(***************************************************************************)
\* The frame last run was run by a camera that exists
FrameOfCamera == last.op # "none" /\ last.camera \in DOMAIN cameras

\* The vertex objects the scene's arrays, edges and faces refer to
SceneVertexIds ==
    Range(vertexes)
    \cup UNION {{SceneHeap.e[e].vertex1, SceneHeap.e[e].vertex2} : e \in Range(edges)}
    \cup UNION {{SceneHeap.f[f].vertex1, SceneHeap.f[f].vertex2, SceneHeap.f[f].vertex3} :
                  f \in Range(faces)}

\* The last frame replaced an endpoint of a clone while clipping
ClippedAnEndpoint ==
    \E k \in DOMAIN last.trace :
        /\ last.trace[k].vertex1 # Null
        /\ <<last.trace[k].vertex1, last.trace[k].vertex2>> # last.trace[k].clone

\* C1: after any frames, run by one or by several cameras over the same
\* scene arrays, every Vertex, Edge and Face of the caller's arrays has the
\* coordinates, the identity i and the endpoint objects it had before the
\* first frame.
C1_FramesLeaveSceneUnchanged ==
    /\ \A v \in SceneVertexIds : v \in DOMAIN heap.v /\ heap.v[v] = SceneHeap.v[v]
    /\ \A k \in DOMAIN edges : heap.e[edges[k]] = SceneHeap.e[edges[k]]
    /\ \A k \in DOMAIN faces : heap.f[faces[k]] = SceneHeap.f[faces[k]]

C1_TwoCamerasClipped ==
    /\ Len(cameras) = 2
    /\ frames >= 2
    /\ last.op = "update"
    /\ ClippedAnEndpoint

\* The identities of the endpoints of the scene's k-th edge
EdgeIds(k) == <<heap.v[heap.e[edges[k]].vertex1].i, heap.v[heap.e[edges[k]].vertex2].i>>

ImportedKeepIdentity(cam) ==
    /\ \A k \in DOMAIN cam.importedVertexes :
          heap.v[cam.importedVertexes[k]].i = heap.v[vertexes[k]].i
    /\ \A k \in DOMAIN cam.importedEdges :
          <<heap.v[heap.e[cam.importedEdges[k]].vertex1].i,
            heap.v[heap.e[cam.importedEdges[k]].vertex2].i>> = EdgeIds(k)
    /\ \A k \in DOMAIN cam.importedFaces :
          /\ heap.v[heap.f[cam.importedFaces[k]].vertex1].i = heap.v[heap.f[faces[k]].vertex1].i
          /\ heap.v[heap.f[cam.importedFaces[k]].vertex2].i = heap.v[heap.f[faces[k]].vertex2].i
          /\ heap.v[heap.f[cam.importedFaces[k]].vertex3].i = heap.v[heap.f[faces[k]].vertex3].i

\* The projected and the converted vertex of a getToDrawVertex call carry i
ToDrawKeepsIdentity(t, i) ==
    /\ t.projected # Null => t.projected[1].i = i
    /\ t.converted # Null => t.converted[1].i = i

EdgeKeepsIdentity(t) ==
    /\ <<t.clone[1].i, t.clone[2].i>> = EdgeIds(t.edge)
    /\ t.vertex1 # Null =>
          /\ <<t.vertex1.i, t.vertex2.i>> = EdgeIds(t.edge)
          /\ ToDrawKeepsIdentity(t.toDraw1, EdgeIds(t.edge)[1])
          /\ ToDrawKeepsIdentity(t.toDraw2, EdgeIds(t.edge)[2])

\* C4: cloning (the imported vertices, edges and faces, and the clone of an
\* edge a frame clips), clipping (both endpoints of the edge it returns) and
\* projection (the projected and the converted vertex) each yield a vertex
\* with the identity i of the scene's vertex in the same slot.
C4_IdentityPreserved ==
    /\ \A c \in DOMAIN cameras : ImportedKeepIdentity(cameras[c])
    /\ \A k \in DOMAIN last.trace : EdgeKeepsIdentity(last.trace[k])
    /\ \A k \in DOMAIN last.seen :
          /\ last.seen[k].i = heap.v[vertexes[k]].i
          /\ ToDrawKeepsIdentity(last.seen[k].toDraw, heap.v[vertexes[k]].i)

C4_ClippedAndProjected ==
    /\ last.op = "update"
    /\ \E k \in DOMAIN last.trace :
          /\ last.trace[k].vertex1 # Null
          /\ last.trace[k].vertex1 # last.trace[k].clone[1]
          /\ last.trace[k].toDraw1.converted # Null
          /\ last.trace[k].toDraw2.converted # Null
    /\ \E k \in DOMAIN last.seen : last.seen[k].toDraw.converted # Null

\* The two projections of an edge: both null, or both defined pixels
BothNull(t) == t.toDraw1.r = Null /\ t.toDraw2.r = Null

DefinedPixel(r) == r # Null /\ IsFinite(r[1].x) /\ IsFinite(r[1].y)

\* C9: in every frame, every imported edge is clipped, then skipped when
\* both projections are null and else drawn by one drawLine call with
\* defined pixel coordinates; no edge makes the frame fail.
C9_NoEdgeFailsTheFrame ==
    last.op # "none" =>
        /\ ~last.err
        /\ FrameOfCamera
        /\ Len(last.trace) = Len(cameras[last.camera].importedEdges)
        /\ \A k \in DOMAIN last.trace :
              /\ ~last.trace[k].threw
              /\ IF BothNull(last.trace[k]) THEN ~last.trace[k].drawn
                 ELSE /\ last.trace[k].drawn
                      /\ DefinedPixel(last.trace[k].toDraw1.r)
                      /\ DefinedPixel(last.trace[k].toDraw2.r)

\* The k-th imported vertex of the camera of the last frame is in front of
\* that camera's view plane
InFrontOfView(k) ==
    isPointInFrontOf(cameras[last.camera].plane,
                     heap.v[cameras[last.camera].importedVertexes[k]].point)

\* The draw calls of the last frame with the given name, labelled with i
CallsOf(op) == {c \in DOMAIN last.calls : last.calls[c].op = op}

LabelsOf(i) == {c \in CallsOf("fillText") : last.calls[c].text = i}

\* C10: in every frame, getToDrawVertex returns null exactly for the
\* imported vertices that are not in front of the view plane, and
\* drawVertexes makes one circle and one label call, labelled with i, for
\* each imported vertex in front of the view plane and none for any other.
C10_VertexesDrawnExactlyInFront ==
    FrameOfCamera =>
        /\ Len(last.seen) = Len(cameras[last.camera].importedVertexes)
        /\ \A k \in DOMAIN last.seen :
              /\ ~last.seen[k].toDraw.err
              /\ (last.seen[k].toDraw.r = Null) <=> ~InFrontOfView(k)
        /\ \A k \in DOMAIN cameras[last.camera].importedVertexes :
              Cardinality(LabelsOf(heap.v[cameras[last.camera].importedVertexes[k]].i))
                  = IF InFrontOfView(k) THEN 1 ELSE 0
        /\ Cardinality(CallsOf("drawCircle")) = Cardinality(CallsOf("fillText"))

\* What update() derives from the pose, and what it derives it from
DerivedState(cam) ==
    <<cam.normalVector, cam.cornerVectorsFromPos, cam.cornerPoints, cam.onCameraPlaneVector,
      cam.onCameraPlane1pxVector, cam.focus, cam.plane>>

Configuration(cam) ==
    <<cam.focalLength, cam.width, cam.height, cam.canW, cam.canH, cam.expandingRatio,
      cam.fps, cam.speed>>

Pose(cam) == <<cam.pos, cam.rx, cam.rz>>

\* focus = pos - normalVector, the plane has the normal normalVector and
\* passes through pos, and the normal has the focal length
DerivedFromPose(cam) ==
    /\ PointMove(cam.focus, cam.normalVector) = cam.pos
    /\ Vector(cam.plane.a, cam.plane.b, cam.plane.c) = cam.normalVector
    /\ PlaneValue(cam.plane, cam.pos) = Num(0)
    /\ getInnerProduct(cam.normalVector, cam.normalVector)
         = Mul(cam.focalLength, cam.focalLength)

\* What the last frame drew of each vertex is what the camera's state after
\* the frame gives for it
DrawnFromPose(cam) ==
    /\ \A k \in DOMAIN last.seen :
          last.seen[k].toDraw = getToDrawVertex(cam, heap.v[cam.importedVertexes[k]])
    /\ \A k \in DOMAIN last.trace :
          last.trace[k].vertex1 # Null =>
              /\ last.trace[k].toDraw1 = getToDrawVertex(cam, last.trace[k].vertex1)
              /\ last.trace[k].toDraw2 = getToDrawVertex(cam, last.trace[k].vertex2)

\* C13: every update() moves, then recomputes the derived state, and only
\* then draws: at every draw focus = pos - normalVector, the view plane
\* passes through pos with the normal normalVector, the frame draws with
\* that state, and two cameras of equal configuration and equal pos, rx and
\* rz have identical derived state whatever keys brought them there.
C13_DerivedStateFollowsPose ==
    /\ \A c \in DOMAIN cameras : DerivedFromPose(cameras[c])
    /\ \A c, d \in DOMAIN cameras :
          (Configuration(cameras[c]) = Configuration(cameras[d])
           /\ Pose(cameras[c]) = Pose(cameras[d]))
              => DerivedState(cameras[c]) = DerivedState(cameras[d])
    /\ FrameOfCamera => DrawnFromPose(cameras[last.camera])

\* Two cameras in the same pose, one of which never ran a frame of mainLoop
\* while the other moved away and has just moved back, and drew.
C13_SamePoseByDifferentKeys ==
    /\ Len(cameras) = 2
    /\ frames = 2
    /\ last.op = "update"
    /\ last.key \in {{"w"}, {"s"}, {"a"}, {"d"}, {" "}, {"Shift"}}
    /\ cameras[last.camera].pos = ExamplePos
    /\ Pose(cameras[1]) = Pose(cameras[2])
    /\ ~last.err
    /\ \E k \in DOMAIN last.seen : last.seen[k].toDraw.r # Null

\* The coordinates and the identity of a Vertex object
VertexValue(o) == <<o.x, o.y, o.z, o.i, o.point>>

\* The endpoints and the vector of the k-th edge of the scene as it was when
\* the cameras imported it
SceneEdgeValue(k) ==
    <<VertexValue(SceneHeap.v[SceneHeap.e[edges[k]].vertex1]),
      VertexValue(SceneHeap.v[SceneHeap.e[edges[k]].vertex2]),
      SceneHeap.e[edges[k]].vector>>

EdgeValue(h, eid) ==
    <<VertexValue(h.v[h.e[eid].vertex1]), VertexValue(h.v[h.e[eid].vertex2]), h.e[eid].vector>>

\* The camera's working copies are what importShapes made them
ImportedAsConstructed(cam) ==
    /\ Len(cam.importedVertexes) = Len(vertexes)
    /\ Len(cam.importedEdges) = Len(edges)
    /\ \A k \in DOMAIN cam.importedVertexes :
          VertexValue(heap.v[cam.importedVertexes[k]]) = VertexValue(SceneHeap.v[vertexes[k]])
    /\ \A k \in DOMAIN cam.importedEdges :
          /\ EdgeValue(heap, cam.importedEdges[k]) = SceneEdgeValue(k)
          /\ heap.e[cam.importedEdges[k]].line.point = heap.e[cam.importedEdges[k]].vertex1

\* The edge a frame clips starts from the endpoints of the original edge
ClipsTheOriginal(t) ==
    <<VertexValue(t.clone[1]), VertexValue(t.clone[2])>>
        = <<SceneEdgeValue(t.edge)[1], SceneEdgeValue(t.edge)[2]>>

\* C15: after any sequence of frames the coordinates and identities of every
\* imported vertex and edge of every camera equal those imported at
\* construction, and the edge a frame clips and draws starts from the
\* original edge, whatever an earlier frame clipped.
C15_ImportedCopiesUnchanged ==
    /\ \A c \in DOMAIN cameras : ImportedAsConstructed(cameras[c])
    /\ \A k \in DOMAIN last.trace : ClipsTheOriginal(last.trace[k])

\* The second frame of a camera that stood still in it, so that both its
\* frames clipped the same edges at the same plane.
C15_ClippedInTwoFrames ==
    /\ Len(cameras) = 1
    /\ frames = 2
    /\ last.op = "update"
    /\ last.key = {}
    /\ ~last.err
    /\ ClippedAnEndpoint
    /\ \E k \in DOMAIN last.trace : last.trace[k].drawn

(***************************************************************************)
(* getToDrawVertex on drawn inputs (ProjectSpec): Init constructs a camera *)
(* with rx = rz = 0 over an empty scene, at a drawn position and with a    *)
(* drawn focal length; the action applies getToDrawVertex to a vertex and  *)
(* to the vertex a distance above it.                                      *)
(***************************************************************************)
\* How far ahead of the origin along the y axis the projected vertices lie at most.
MaxDepth == 3

ProjectPositions == {ExamplePos, P3(1, 0, 1), P3(-1, -2, 0)}

FocalLengths == {Num(1), Num(ExampleFocalLength)}

ProjectVertexes ==
    {VertexObject(Num(vx), Num(vy), Num(vz), 0) :
        vx \in {0, 2}, vy \in (-2)..MaxDepth, vz \in {0, 1}}

\* How much higher along the z axis the second vertex is
Rises == {Num(1), Num(2)}

\* The vertex with the same x and y and a larger z
Raised(vertex, rise) == VertexObject(vertex.x, vertex.y, Add(vertex.z, rise), vertex.i)

NoProjection ==
    [op |-> "none", vertex |-> VertexObject(Num(0), Num(0), Num(0), 0),
     above |-> VertexObject(Num(0), Num(0), Num(0), 0),
     toDraw |-> Null, toDrawAbove |-> Null, err |-> FALSE]

\* camera.getToDrawVertex(vertex) and camera.getToDrawVertex of the vertex raised by rise
Project(vertex, rise) ==
    /\ last.op = "none"
    /\ \E t \in {getToDrawVertex(cameras[1], vertex)},
          u \in {getToDrawVertex(cameras[1], Raised(vertex, rise))} :
          last' = [op |-> "getToDrawVertex", vertex |-> vertex,
                   above |-> Raised(vertex, rise),
                   toDraw |-> t.r, toDrawAbove |-> u.r, err |-> t.err \/ u.err]
    /\ UNCHANGED <<heap, cameras, frames>>
    /\ SceneUnchanged

ProjectInit ==
    /\ heap = EmptyHeap
    /\ vertexes = <<>>
    /\ edges = <<>>
    /\ faces = <<>>
    /\ lights = <<>>
    /\ \E pos \in ProjectPositions, focalLength \in FocalLengths :
          cameras = <<CameraConstructor(
                         CameraObject(pos, 0, 0, focalLength, CAMERA_W, CAMERA_H, CAN_W, CAN_H,
                                      Num(expandingRatio), Num(Fps), Num(Speed)),
                         {}, EmptyHeap, <<>>, <<>>, <<>>, <<>>).cam>>
    /\ last = NoProjection
    /\ moves = 0
    /\ frames = 0
    /\ boundaryIsFront \in BOOLEAN
    /\ parallelResult \in ParallelResults

ProjectNext == \E vertex \in ProjectVertexes, rise \in Rises : Project(vertex, rise)

ProjectSpec == ProjectInit /\ [][ProjectNext]_vars

(***************************************************************************)
(* Properties of getToDrawVertex (ProjectSpec)                             *)
(***************************************************************************)
\* vy - pos.y > 0: the vertex is strictly in front of the view plane of a
\* camera with rx = rz = 0
StrictlyInFront(cam, vertex) == Gt(Sub(vertex.y, cam.pos.y), Num(0))

\* f / (vy - pos.y + f)
Perspective(cam, vertex) ==
    Div(cam.focalLength, Add(Sub(vertex.y, cam.pos.y), cam.focalLength))

\* The pixel of the claim's closed form
ClosedForm(cam, vertex) ==
    [x |-> Add(Mul(Mul(Sub(vertex.x, cam.pos.x), Perspective(cam, vertex)), cam.expandingRatio),
               Div(cam.canW, Num(2))),
     y |-> Add(Mul(Mul(Neg(Sub(vertex.z, cam.pos.z)), Perspective(cam, vertex)),
                   cam.expandingRatio),
               Div(cam.canH, Num(2)))]

ExampleCamera(cam) ==
    /\ cam.pos = ExamplePos
    /\ cam.focalLength = Num(ExampleFocalLength)
    /\ cam.canW = <<1024, 5>>
    /\ cam.canH = <<576, 5>>
    /\ cam.expandingRatio = Num(64)

RasterCentre == [x |-> <<512, 5>>, y |-> <<288, 5>>]

\* C14: with rx = rz = 0, for a vertex strictly in front of the view plane
\* getToDrawVertex returns x = (vx - pos.x) * f / (vy - pos.y + f) *
\* expandingRatio + canW / 2 and y = -(vz - pos.z) * f / (vy - pos.y + f) *
\* expandingRatio + canH / 2; the camera at (0, -1, 0) with focal length 3,
\* raster 204.8 x 115.2 and ratio 64 maps (0, 3, 0) to (102.4, 57.6); and
\* of two vertices that differ in z only the higher has the smaller y.
C14_PerspectiveClosedForm ==
    (last.op = "getToDrawVertex") =>
        /\ StrictlyInFront(cameras[1], last.vertex) =>
              /\ ~last.err
              /\ last.toDraw = Some(ClosedForm(cameras[1], last.vertex))
              /\ last.toDrawAbove # Null
              /\ Lt(last.toDrawAbove[1].y, last.toDraw[1].y)
              /\ last.toDrawAbove[1].x = last.toDraw[1].x
        /\ (ExampleCamera(cameras[1]) /\ last.vertex.point = P3(0, 3, 0)) =>
              last.toDraw = Some(RasterCentre)

\* The example: the camera of main.js and the vertex (0, 3, 0), drawn at the raster centre.
C14_ExampleAtRasterCentre ==
    /\ last.op = "getToDrawVertex"
    /\ ExampleCamera(cameras[1])
    /\ cameras[1].rx = 0
    /\ cameras[1].rz = 0
    /\ last.vertex.point = P3(0, 3, 0)
    /\ StrictlyInFront(cameras[1], last.vertex)
    /\ last.toDraw = Some(RasterCentre)

(***************************************************************************)
(* getClone on drawn inputs (CloneSpec): Init draws an edge and a face     *)
(* over the pool vertices and a light at a Point; the caller may move a    *)
(* vertex, clones one of the objects, and then moves the geometry of the   *)
(* clone.                                                                  *)
(***************************************************************************)
\* The faces an original is drawn from
CloneFacePool == { <<1, 3, 4>>, <<2, 4, 5>> }

\* The heap with an edge a -> b, a face f with a colour and a roughness, and
\* a light at the Point object (0, 0, 3)
CloneHeap(a, b, f) ==
    NewLight(NewPoint(NewFace(NewEdge(PoolHeap(Len(VertexPool)), a, b).h,
                              f[1], f[2], f[3], "red", "rough").h,
                      Num(0), Num(0), Num(3)).h,
             1, Num(2), "white").h

\* math.js Point.move on a Point object: moves it in place
PointObjectMove(h, pid, vector) == [h EXCEPT !.p[pid] = PointMove(h.p[pid], vector)]

\* The vertices of an object: the vertex itself, the endpoints of an edge,
\* the corners of a face
VerticesOf(h, kind, id) ==
    IF kind = "vertex" THEN <<id>>
    ELSE IF kind = "edge" THEN <<h.e[id].vertex1, h.e[id].vertex2>>
    ELSE IF kind = "face" THEN <<h.f[id].vertex1, h.f[id].vertex2, h.f[id].vertex3>>
    ELSE <<>>

\* original.getClone() on a vertex, an edge, a face or a light
CloneObject(kind, id) ==
    /\ last.op \in {"none", "moveVertex"}
    /\ \E res \in {CloneOne(kind, heap, id)} :
          /\ heap' = res.h
          /\ last' = [op |-> "getClone", kind |-> kind, target |-> id, r |-> res.r,
                      before |-> heap]
    /\ UNCHANGED <<moves, frames>>
    /\ ShapeUnchanged

\* clone.move(vector) on the clone of a vertex, or on the part-th vertex of
\* the clone of an edge or a face; the Vertex it returns is dropped
MoveCloneVertex(part, vector) ==
    /\ last.op = "getClone"
    /\ part \in DOMAIN VerticesOf(heap, last.kind, last.r)
    /\ \E res \in {VertexMove(heap, VerticesOf(heap, last.kind, last.r)[part], vector)} :
          heap' = [res.h EXCEPT !.v = [w \in DOMAIN heap.v |-> res.h.v[w]]]
    /\ last' = [last EXCEPT !.op = "moveClone"]
    /\ UNCHANGED <<moves, frames>>
    /\ ShapeUnchanged

\* clone.pos.move(vector) on the clone of a light
MoveCloneLight(vector) ==
    /\ last.op = "getClone"
    /\ last.kind = "light"
    /\ heap' = PointObjectMove(heap, heap.l[last.r].pos, vector)
    /\ last' = [last EXCEPT !.op = "moveClone"]
    /\ UNCHANGED <<moves, frames>>
    /\ ShapeUnchanged

CloneInit ==
    /\ \E a, b \in 1..3, f \in CloneFacePool :
          /\ a # b
          /\ heap = CloneHeap(a, b, f)
    /\ vertexes = <<>>
    /\ edges = <<>>
    /\ faces = <<>>
    /\ lights = <<>>
    /\ cameras = <<>>
    /\ last = NoLast
    /\ moves = 0
    /\ frames = 0
    /\ boundaryIsFront \in BOOLEAN
    /\ parallelResult \in ParallelResults

CloneStep ==
    \/ \E vid \in DOMAIN heap.v, vector \in MoveVectors :
          last.op = "none" /\ MoveVertex(vid, vector)
    \/ \E vid \in DOMAIN heap.v : CloneObject("vertex", vid)
    \/ \E eid \in DOMAIN heap.e : CloneObject("edge", eid)
    \/ \E fid \in DOMAIN heap.f : CloneObject("face", fid)
    \/ \E lid \in DOMAIN heap.l : CloneObject("light", lid)
    \/ \E part \in 1..3, vector \in MoveVectors : MoveCloneVertex(part, vector)
    \/ \E vector \in MoveVectors : MoveCloneLight(vector)

CloneSpec == CloneInit /\ [][CloneStep]_vars

(***************************************************************************)
(* Properties of getClone (CloneSpec)                                      *)
(***************************************************************************)
\* The fields of an object, with the objects they refer to by value
VertexFields(h, vid) == VertexValue(h.v[vid])

EdgeFields(h, eid) ==
    <<VertexFields(h, h.e[eid].vertex1), VertexFields(h, h.e[eid].vertex2), h.e[eid].vector>>

FaceFields(h, fid) ==
    <<VertexFields(h, h.f[fid].vertex1), VertexFields(h, h.f[fid].vertex2),
      VertexFields(h, h.f[fid].vertex3), h.f[fid].color, h.f[fid].roughness,
      h.f[fid].vector1, h.f[fid].vector2, h.f[fid].normalVector, h.f[fid].plane>>

LightFields(h, lid) == <<h.p[h.l[lid].pos], h.l[lid].power, h.l[lid].color>>

FieldsOf(h, kind, id) ==
    IF kind = "vertex" THEN VertexFields(h, id)
    ELSE IF kind = "edge" THEN EdgeFields(h, id)
    ELSE IF kind = "face" THEN FaceFields(h, id)
    ELSE LightFields(h, id)

\* C16: the clone getClone returns equals the original in every field, and
\* a later Vertex.move or Point.move on the geometry of the clone does not
\* change the original.
C16_CloneEqualAndIndependent ==
    /\ (last.op = "getClone") =>
          FieldsOf(heap, last.kind, last.r) = FieldsOf(heap, last.kind, last.target)
    /\ (last.op = "moveClone") =>
          FieldsOf(heap, last.kind, last.target) = FieldsOf(last.before, last.kind, last.target)
====
